---- MODULE Spec2Model ----
(***************************************************************************)
(* A model of the rust-jni wrapper generator (generator/src/lib.rs):       *)
(* token streams are parsed into Java definitions (parse_java_definition), *)
(* resolved into generator data (to_generator_data) and emitted            *)
(* (generate).  Text is modelled as sequences of character codes, token    *)
(* trees as records, and a panic as a result record with ok = FALSE.       *)
(* The last part models the exception tokens of the runtime library        *)
(* (src/jni/mod.rs): a JniEnv, the pending exception of its thread and     *)
(* the calls made on it.                                                   *)
(***************************************************************************)
EXTENDS Integers, Sequences, FiniteSets, TLC

VARIABLES input, pc, hash_order, name_result, header_result, body_result,
          parsed, data, output, error,
          has_token, exception_pending, jni_calls, returned,
          attached, envs, live_tokens

\* the state of a JniEnv: its has_token field, the pending exception of
\* its thread, the JNI functions called so far and what the calls made on
\* the library came to
jni_vars == <<has_token, exception_pending, jni_calls, returned>>

\* the state of the generator
generator_vars == <<input, pc, hash_order, name_result, header_result,
                    body_result, parsed, data, output, error>>

\* the state of a thread: whether the Java VM has it attached, the
\* native_method_call fields of the JniEnv values alive on it, and how many
\* NoException and Exception tokens its code holds
thread_vars == <<attached, envs, live_tokens>>

vars == <<generator_vars, jni_vars, thread_vars>>

\* Option<T>
None    == [some |-> FALSE, v |-> <<>>]
Some(v) == [some |-> TRUE, v |-> v]

-----------------------------------------------------------------------------
(* Bounds of the model.                                                    *)

\* longest token run handed to JavaName::from_tokens
MaxNameLen == 4
\* longest class header handed to parse_class_header
MaxHeaderLen == 5
\* most declarations (top-level chunks plus metadata stubs) in one input
MaxDecls == 3
\* longest class body handed to the body parser
MaxBodyLen == 5
\* most members of the class of a single-class input
MaxMembers == 3
\* most top-level chunks before the metadata block of a malformed input
MaxChunks == 2
\* most calls of JniEnv::token on one JniEnv
MaxTokenCalls == 3
\* most JNI functions called on one JniEnv
MaxJniCalls == 5
\* most calls made on the library by one thread
MaxCalls == 4

-----------------------------------------------------------------------------
(* Text: strings are sequences of character codes.                         *)

str_class      == <<99, 108, 97, 115, 115>>
str_interface  == <<105, 110, 116, 101, 114, 102, 97, 99, 101>>
str_extends    == <<101, 120, 116, 101, 110, 100, 115>>
str_implements == <<105, 109, 112, 108, 101, 109, 101, 110, 116, 115>>
str_public     == <<112, 117, 98, 108, 105, 99>>
str_static     == <<115, 116, 97, 116, 105, 99>>
str_metadata   == <<109, 101, 116, 97, 100, 97, 116, 97>>
str_invalid    == <<105, 110, 118, 97, 108, 105, 100>>
str_java       == <<106, 97, 118, 97>>
str_lang       == <<108, 97, 110, 103>>
str_Object     == <<79, 98, 106, 101, 99, 116>>
str_new        == <<110, 101, 119>>
str_get_class  == <<103, 101, 116, 95, 99, 108, 97, 115, 115>>
str_clone      == <<99, 108, 111, 110, 101>>
str_to_string  == <<116, 111, 95, 115, 116, 114, 105, 110, 103>>
str_int        == <<105, 110, 116>>
str_long       == <<108, 111, 110, 103>>
str_char       == <<99, 104, 97, 114>>
str_byte       == <<98, 121, 116, 101>>
str_boolean    == <<98, 111, 111, 108, 101, 97, 110>>
str_float      == <<102, 108, 111, 97, 116>>
str_double     == <<100, 111, 117, 98, 108, 101>>
str_i32        == <<105, 51, 50>>
str_i64        == <<105, 54, 52>>
str_u8         == <<117, 56>>
str_bool       == <<98, 111, 111, 108>>
str_f32        == <<102, 51, 50>>
str_f64        == <<102, 54, 52>>
str_pub        == <<112, 117, 98>>
str_a          == <<97>>
str_b          == <<98>>
str_c          == <<99>>
str_d          == <<100>>
str_e          == <<101>>
str_f          == <<102>>
str_g          == <<103>>
str_h          == <<104>>
str_A          == <<65>>
str_B          == <<66>>
str_C          == <<67>>
str_I          == <<73>>
str_J          == <<74>>
str_K          == <<75>>

\* lexicographic comparison of two strings, as str::cmp
RECURSIVE StrLessFrom(_, _, _)
StrLessFrom(s, t, i) ==
    IF i > Len(t) THEN FALSE
    ELSE IF i > Len(s) THEN TRUE
    ELSE IF s[i] < t[i] THEN TRUE
    ELSE IF s[i] > t[i] THEN FALSE
    ELSE StrLessFrom(s, t, i + 1)

StrLess(s, t) == StrLessFrom(s, t, 1)

-----------------------------------------------------------------------------
(* Token trees (proc_macro2::TokenTree).                                   *)

Ident(s)     == [k |-> "Ident", s |-> s]
Punct(c, sp) == [k |-> "Punct", c |-> c, sp |-> sp]
Group(d, ts) == [k |-> "Group", d |-> d, ts |-> ts]
Literal(s)   == [k |-> "Literal", s |-> s]

Dot       == Punct(46, "Alone")
Comma     == Punct(44, "Alone")
Semicolon == Punct(59, "Alone")

Ok(v)  == [ok |-> TRUE, v |-> v]
Err(m) == [ok |-> FALSE, err |-> m]

is_punctuation(token, value) ==
    token.k = "Punct" /\ token.sp = "Alone" /\ token.c = value

is_identifier(token, name) ==
    token.k = "Ident" /\ token.s = name

is_definition(token) ==
    token.k = "Group" /\ token.d = "Brace"

is_metadata_definition(token) ==
    \/ token.k = "Group" /\ token.d = "Brace"
    \/ token.k = "Punct" /\ token.c = 59

\* Rust evaluates an argument once, before the call: Bind(x, F) is F(x)
\* with x evaluated once, and Then(r, F) continues with the value of a
\* result that is not a panic.
Bind(x, F(_)) == CHOOSE y \in {F(v) : v \in {x}} : TRUE

Then(r, F(_)) == Bind(r, LAMBDA x : IF x.ok THEN F(x.v) ELSE x)

\* slice.split(pred): the runs between the separator positions `seps`
\* (empty runs included)
RECURSIVE SplitFrom(_, _, _, _)
SplitFrom(tokens, seps, i, cur) ==
    IF i > Len(tokens) THEN <<cur>>
    ELSE IF i \in seps THEN <<cur>> \o SplitFrom(tokens, seps, i + 1, <<>>)
    ELSE SplitFrom(tokens, seps, i + 1, Append(cur, tokens[i]))

NonEmpty(chunks) == SelectSeq(chunks, LAMBDA chunk : chunk # <<>>)

\* .split(pred).filter(non-empty)
SplitNonEmpty(tokens, seps) == NonEmpty(SplitFrom(tokens, seps, 1, <<>>))

\* iterator take_while / skip_while on a keyword set
FirstIndex(tokens, names) ==
    LET hits == {i \in 1..Len(tokens) :
                     \E n \in names : is_identifier(tokens[i], n)}
    IN IF hits = {} THEN Len(tokens) + 1
       ELSE CHOOSE i \in hits : \A j \in hits : i <= j

TakeWhileNot(tokens, names) ==
    SubSeq(tokens, 1, FirstIndex(tokens, names) - 1)

SkipWhileNotThenOne(tokens, names) ==
    SubSeq(tokens, FirstIndex(tokens, names) + 1, Len(tokens))

-----------------------------------------------------------------------------
(* JavaName: a token stream of identifiers.  Two names are equal, and     *)
(* hash alike, when they hold the same identifiers in the same order.      *)

RECURSIVE from_tokens_scan(_, _, _, _)
from_tokens_scan(tokens, i, was_identifier, acc) ==
    IF i > Len(tokens)
    THEN IF acc = <<>> THEN Err("Expected a Java name, got no tokens.")
         ELSE Ok(acc)
    ELSE IF tokens[i].k = "Ident" /\ ~was_identifier
    THEN from_tokens_scan(tokens, i + 1, TRUE, Append(acc, tokens[i]))
    ELSE IF tokens[i].k = "Punct" /\ was_identifier
    THEN IF tokens[i].c # 46 THEN Err("Expected a dot")
         ELSE from_tokens_scan(tokens, i + 1, FALSE, acc)
    ELSE IF was_identifier THEN Err("Expected a dot")
    ELSE Err("Expected an identifier")

from_tokens(tokens) ==
    Bind(tokens, LAMBDA t : from_tokens_scan(t, 1, FALSE, <<>>))

\* results of a sequence of fallible steps: the first panic, or all values
Collect(results) ==
    Bind(results, LAMBDA rs :
        IF \E i \in 1..Len(rs) : ~rs[i].ok
        THEN rs[CHOOSE i \in 1..Len(rs) :
                    ~rs[i].ok /\ \A j \in 1..(i - 1) : rs[j].ok]
        ELSE Ok([i \in 1..Len(rs) |-> rs[i].v]))

\* Display of a token stream (proc_macro2): tokens are separated by one
\* space, except after a Joint punctuation.
RECURSIVE to_string_from(_, _, _)
RECURSIVE TokenText(_)
TokenText(token) ==
    IF token.k = "Punct" THEN <<token.c>>
    ELSE IF token.k = "Group"
    THEN LET open  == IF token.d = "Brace" THEN <<123>>
                      ELSE IF token.d = "Parenthesis" THEN <<40>> ELSE <<91>>
             close == IF token.d = "Brace" THEN <<125>>
                      ELSE IF token.d = "Parenthesis" THEN <<41>> ELSE <<93>>
         IN IF token.ts = <<>> THEN open \o <<32>> \o close
            ELSE open \o <<32>> \o to_string_from(token.ts, 1, TRUE)
                 \o <<32>> \o close
    ELSE token.s

to_string_from(tokens, i, joint) ==
    IF i > Len(tokens) THEN <<>>
    ELSE (IF joint THEN <<>> ELSE <<32>>)
         \o TokenText(tokens[i])
         \o to_string_from(tokens, i + 1,
                           tokens[i].k = "Punct" /\ tokens[i].sp = "Joint")

to_string(tokens) == Bind(tokens, LAMBDA t : to_string_from(t, 1, TRUE))

name(java_name) == java_name[Len(java_name)]

RECURSIVE JoinStrings(_, _)
JoinStrings(strings, sep) ==
    IF strings = <<>> THEN <<>>
    ELSE IF Len(strings) = 1 THEN strings[1]
    ELSE strings[1] \o sep \o JoinStrings(Tail(strings), sep)

\* a faulty signature: the segments joined by dots
with_slashes_dotted(java_name) ==
    JoinStrings([i \in 1..Len(java_name) |-> TokenText(java_name[i])], <<46>>)

with_slashes(java_name) ==
    JoinStrings([i \in 1..Len(java_name) |-> TokenText(java_name[i])], <<47>>)

with_double_colons(java_name) ==
    [i \in 1..(3 * Len(java_name)) |->
        IF i % 3 = 1 THEN Punct(58, "Joint")
        ELSE IF i % 3 = 2 THEN Punct(58, "Alone")
        ELSE java_name[i \div 3]]

with_dots(java_name) ==
    [i \in 1..(2 * Len(java_name) - 1) |->
        IF i % 2 = 1 THEN java_name[(i + 1) \div 2] ELSE Dot]

-----------------------------------------------------------------------------
(* Headers.                                                                *)

CommaPositions(tokens) ==
    {i \in 1..Len(tokens) : is_punctuation(tokens[i], 44)}

comma_separated_names(tokens) ==
    Bind(tokens, LAMBDA t :
        Bind(SplitNonEmpty(t, CommaPositions(t)), LAMBDA slices :
            Collect([i \in 1..Len(slices) |-> from_tokens(slices[i])])))

parse_interface_header(header) ==
    Bind(header, LAMBDA h :
        Then(from_tokens(TakeWhileNot(h, {str_extends})), LAMBDA java_name :
        Then(comma_separated_names(SkipWhileNotThenOne(h, {str_extends})),
             LAMBDA extends :
        Ok([name |-> java_name, extends |-> extends]))))

\* the tokens the extends clause of a class header is read from
class_extends_tokens(header) ==
    TakeWhileNot(SkipWhileNotThenOne(header, {str_extends}), {str_implements})

\* a faulty implements clause: one that ends where an extends clause begins
class_implements_tokens_bounded(header) ==
    TakeWhileNot(SkipWhileNotThenOne(header, {str_implements}), {str_extends})

\* the tokens the implements clause of a class header is read from
class_implements_tokens(header) ==
    SkipWhileNotThenOne(header, {str_implements})

parse_class_header(header) ==
    Bind(header, LAMBDA h :
        Then(from_tokens(TakeWhileNot(h, {str_extends, str_implements})),
             LAMBDA java_name :
        Then(comma_separated_names(class_implements_tokens(h)),
             LAMBDA implements :
        LET has_extends == \E i \in 1..Len(h) : is_identifier(h[i], str_extends)
        IN Then(IF has_extends
                THEN Then(from_tokens(class_extends_tokens(h)),
                          LAMBDA n : Ok(Some(n)))
                ELSE Ok(None),
                LAMBDA extends :
        Ok([name |-> java_name, extends |-> extends,
            implements |-> implements])))))

MetadataSeparators(tokens) ==
    {i \in 1..Len(tokens) : is_metadata_definition(tokens[i])}

\* a faulty parse: whatever is not an interface is taken for a class
parse_metadata_definition_unchecked(chunk) ==
    IF is_identifier(Head(chunk), str_interface)
    THEN Then(parse_interface_header(Tail(chunk)), LAMBDA h :
             Ok([name |-> h.name, kind |-> "Interface",
                 extends |-> h.extends]))
    ELSE Then(parse_class_header(Tail(chunk)), LAMBDA h :
             Ok([name |-> h.name, kind |-> "Class", extends |-> h.extends,
                 implements |-> h.implements]))

parse_metadata_definition(chunk) ==
    LET token        == Head(chunk)
        is_class     == is_identifier(token, str_class)
        is_interface == is_identifier(token, str_interface)
    IN IF ~is_class /\ ~is_interface
       THEN Err("Expected \"class\" or \"interface\"")
       ELSE IF is_interface
       THEN Then(parse_interface_header(Tail(chunk)), LAMBDA h :
                Ok([name |-> h.name, kind |-> "Interface",
                    extends |-> h.extends]))
       ELSE Then(parse_class_header(Tail(chunk)), LAMBDA h :
                Ok([name |-> h.name, kind |-> "Class", extends |-> h.extends,
                    implements |-> h.implements]))

parse_metadata(tokens) ==
    Bind(tokens, LAMBDA t :
        Bind(SplitNonEmpty(t, MetadataSeparators(t)), LAMBDA chunks :
            Collect([i \in 1..Len(chunks) |->
                        parse_metadata_definition(chunks[i])])))

-----------------------------------------------------------------------------
(* Class bodies.                                                           *)

AnyIdentifier(tokens, ident) ==
    \E i \in 1..Len(tokens) : is_identifier(tokens[i], ident)

WithoutIdentifiers(tokens, idents) ==
    SelectSeq(tokens, LAMBDA token :
                          \A ident \in idents : ~is_identifier(token, ident))

\* a faulty test: the tokens are compared with the simple name of the class
is_constructor_simple_name(tokens, class_name) ==
    LET public == AnyIdentifier(tokens, str_public)
    IN IF public /\ Len(tokens) < 2
       THEN Err("slice index starts at 1 but ends at 0")
       ELSE Ok(to_string(IF public THEN SubSeq(tokens, 2, Len(tokens) - 1)
                         ELSE SubSeq(tokens, 1, Len(tokens) - 1))
               = to_string(<<name(class_name)>>))

is_constructor(tokens, class_name) ==
    LET public == AnyIdentifier(tokens, str_public)
    IN IF public /\ Len(tokens) < 2
       THEN Err("slice index starts at 1 but ends at 0")
       ELSE Ok(to_string(IF public THEN SubSeq(tokens, 2, Len(tokens) - 1)
                         ELSE SubSeq(tokens, 1, Len(tokens) - 1))
               = to_string(with_dots(class_name)))

parse_method_argument(tokens) ==
    IF tokens[Len(tokens)].k # "Ident" THEN Err("Expected argument name")
    ELSE Then(from_tokens(SubSeq(tokens, 1, Len(tokens) - 1)),
              LAMBDA data_type :
                  Ok([name |-> tokens[Len(tokens)], data_type |-> data_type]))

parse_method_arguments(token) ==
    IF token.k # "Group" THEN Err("Expected method arguments")
    ELSE IF token.d # "Parenthesis"
    THEN Err("Expected method arguments in parenthesis")
    ELSE Bind(SplitNonEmpty(token.ts, CommaPositions(token.ts)), LAMBDA chunks :
             Collect([i \in 1..Len(chunks) |-> parse_method_argument(chunks[i])]))

parse_method(all_tokens) ==
    Bind(WithoutIdentifiers(all_tokens, {str_public, str_static}),
         LAMBDA tokens :
        IF Len(tokens) < 2 THEN Err("index out of bounds")
        ELSE IF tokens[Len(tokens) - 1].k # "Ident"
        THEN Err("Expected method name")
        ELSE Then(from_tokens(SubSeq(tokens, 1, Len(tokens) - 2)),
                  LAMBDA return_type :
             Then(parse_method_arguments(tokens[Len(tokens)]),
                  LAMBDA arguments :
             Ok([name |-> tokens[Len(tokens) - 1],
                 return_type |-> return_type,
                 arguments |-> arguments,
                 public |-> AnyIdentifier(all_tokens, str_public),
                 is_static |-> AnyIdentifier(all_tokens, str_static)]))))

parse_constructor(all_tokens) ==
    Bind(WithoutIdentifiers(all_tokens, {str_public}), LAMBDA tokens :
        IF Len(tokens) < 1 THEN Err("index out of bounds")
        ELSE Then(parse_method_arguments(tokens[Len(tokens)]),
                  LAMBDA arguments :
             Ok([arguments |-> arguments,
                 public |-> AnyIdentifier(all_tokens, str_public)])))

\* the values of the Some entries of a sequence of options
Somes(options) ==
    LET kept == SelectSeq(options, LAMBDA o : o.some)
    IN [i \in 1..Len(kept) |-> kept[i].v]

SemicolonPositions(tokens) ==
    {i \in 1..Len(tokens) : is_punctuation(tokens[i], 59)}

\* the constructors of a class body, then its methods
parse_class_body(body, class_name) ==
    Bind(SplitNonEmpty(body, SemicolonPositions(body)), LAMBDA chunks :
        Then(Collect([i \in 1..Len(chunks) |->
                 Then(is_constructor(chunks[i], class_name), LAMBDA yes :
                     IF yes THEN Then(parse_constructor(chunks[i]),
                                      LAMBDA c : Ok(Some(c)))
                     ELSE Ok(None))]),
             LAMBDA constructors :
        Then(Collect([i \in 1..Len(chunks) |->
                 Then(is_constructor(chunks[i], class_name), LAMBDA yes :
                     IF yes THEN Ok(None)
                     ELSE Then(parse_method(chunks[i]),
                               LAMBDA m : Ok(Some(m))))]),
             LAMBDA methods :
        Ok([constructors |-> Somes(constructors),
            methods |-> Somes(methods)]))))

-----------------------------------------------------------------------------
(* Top-level definitions.                                                  *)

\* the header of one top-level chunk: visibility, kind, name and clauses
parse_definition_header(chunk) ==
    LET public == is_identifier(Head(chunk), str_public)
    IN IF public /\ Len(chunk) < 2
       THEN Err("unwrap on a None value")
       ELSE LET token        == IF public THEN chunk[2] ELSE chunk[1]
                is_class     == is_identifier(token, str_class)
                is_interface == is_identifier(token, str_interface)
            IN IF ~is_class /\ ~is_interface
               THEN Err("Expected \"class\" or \"interface\"")
               ELSE IF is_interface
               THEN Then(parse_interface_header(
                             IF public THEN Tail(Tail(chunk)) ELSE Tail(chunk)),
                         LAMBDA h :
                    Ok([name |-> h.name, public |-> public,
                        kind |-> "Interface", extends |-> h.extends]))
               ELSE Then(parse_class_header(
                             IF public THEN Tail(Tail(chunk)) ELSE Tail(chunk)),
                         LAMBDA h :
                    Ok([name |-> h.name, public |-> public,
                        kind |-> "Class", extends |-> h.extends,
                        implements |-> h.implements,
                        methods |-> <<>>, constructors |-> <<>>]))

\* a parsed header joined with the brace group zipped to it
parse_definition_body(definition, group) ==
    IF definition.kind = "Class"
    THEN Then(parse_class_body(group.ts, definition.name), LAMBDA body :
             Ok([definition EXCEPT !.methods = body.methods,
                                   !.constructors = body.constructors]))
    ELSE Ok(definition)

\* how many header chunks the zip pairs with a brace group
zipped_pairs(headers, groups) ==
    IF Len(headers) < Len(groups) THEN Len(headers) ELSE Len(groups)

\* the k-th pull of the zipped iterator: the header is parsed, then a
\* group is asked for; without one the header is dropped
parse_definition(headers, groups, k) ==
    Then(parse_definition_header(headers[k]), LAMBDA definition :
        IF k > Len(groups) THEN Ok(None)
        ELSE Then(parse_definition_body(definition, groups[k]),
                  LAMBDA d : Ok(Some(d))))

parse_definitions(definitions) ==
    Bind(SplitNonEmpty(definitions,
                       {i \in 1..Len(definitions) : is_definition(definitions[i])}),
         LAMBDA headers :
    Bind(SelectSeq(definitions, is_definition), LAMBDA groups :
        \* the zip pulls one more header before it finds the groups exhausted
        LET pulled == IF Len(headers) > Len(groups) THEN Len(groups) + 1
                      ELSE Len(headers)
        IN Then(Collect([k \in 1..pulled |->
                            parse_definition(headers, groups, k)]),
                LAMBDA all : Ok(SubSeq(Somes(all), 1,
                                       zipped_pairs(headers, groups))))))

parse_java_definition(tokens) ==
    LET n            == Len(tokens)
        has_metadata == n > 1 /\ is_identifier(tokens[n - 1], str_metadata)
    IN Then(IF has_metadata
            THEN IF tokens[n].k = "Group" /\ tokens[n].d = "Brace"
                 THEN parse_metadata(tokens[n].ts)
                 ELSE Err("Expected braces")
            ELSE Ok(<<>>),
            LAMBDA metadata :
       Then(parse_definitions(IF has_metadata THEN SubSeq(tokens, 1, n - 2)
                              ELSE tokens),
            LAMBDA definitions :
       Ok([definitions |-> definitions, metadata |-> metadata])))

-----------------------------------------------------------------------------
(* Generator data.                                                         *)

as_primitive_type(java_name) ==
    IF Len(java_name) = 1
    THEN LET token == java_name[1]
         IN IF is_identifier(token, str_int) THEN Some(<<Ident(str_i32)>>)
            ELSE IF is_identifier(token, str_long) THEN Some(<<Ident(str_i64)>>)
            ELSE IF is_identifier(token, str_char) THEN Some(<<Ident(str_char)>>)
            ELSE IF is_identifier(token, str_byte) THEN Some(<<Ident(str_u8)>>)
            ELSE IF is_identifier(token, str_boolean) THEN Some(<<Ident(str_bool)>>)
            ELSE IF is_identifier(token, str_float) THEN Some(<<Ident(str_f32)>>)
            ELSE IF is_identifier(token, str_double) THEN Some(<<Ident(str_f64)>>)
            ELSE None
    ELSE None

as_rust_type(java_name) ==
    LET primitive == as_primitive_type(java_name)
    IN IF primitive.some THEN primitive.v
       ELSE with_double_colons(java_name)
            \o <<Punct(60, "Alone"), Punct(39, "Joint"), Ident(str_a),
                 Punct(62, "Alone")>>

\* a faulty mapping: a class type passed by value
as_rust_type_reference_by_value(java_name) ==
    LET primitive == as_primitive_type(java_name)
    IN IF primitive.some THEN primitive.v
       ELSE with_double_colons(java_name)
            \o <<Punct(60, "Alone"), Punct(39, "Joint"), Ident(str_a),
                 Punct(62, "Alone")>>

as_rust_type_reference(java_name) ==
    LET primitive == as_primitive_type(java_name)
    IN IF primitive.some THEN primitive.v
       ELSE <<Punct(38, "Alone")>> \o with_double_colons(java_name)

public_token(public) == IF public THEN <<Ident(str_pub)>> ELSE <<>>

to_generator_method(method) ==
    [name           |-> method.name,
     java_name      |-> Literal(method.name.s),
     public         |-> public_token(method.public),
     return_type    |-> as_rust_type(method.return_type),
     argument_names |-> [i \in 1..Len(method.arguments) |->
                            method.arguments[i].name],
     argument_types |-> [i \in 1..Len(method.arguments) |->
                            as_rust_type_reference(method.arguments[i].data_type)]]

to_generator_constructor(constructor) ==
    [name           |-> Ident(str_new),
     public         |-> public_token(constructor.public),
     argument_names |-> [i \in 1..Len(constructor.arguments) |->
                            constructor.arguments[i].name],
     argument_types |-> [i \in 1..Len(constructor.arguments) |->
                            as_rust_type_reference(
                                constructor.arguments[i].data_type)]]

JavaLangObject == <<Ident(str_java), Ident(str_lang), Ident(str_Object)>>

Range(seq) == {seq[i] : i \in 1..Len(seq)}

\* the order a HashMap / HashSet holding `set` is iterated in, under the
\* hash order `ord` (a sequence that lists every name once); one run of the
\* generator iterates all its maps and sets under one such order
IterationOrder(set, ord) == SelectSeq(ord, LAMBDA n : n \in set)

\* the interface -> directly extended interfaces map, as the two for_each
\* loops over the local and the metadata interfaces fill it
interface_extends_map(definitions) ==
    LET interfaces == SelectSeq(definitions.definitions \o definitions.metadata,
                                LAMBDA d : d.kind = "Interface")
    IN [n \in {interfaces[i].name : i \in 1..Len(interfaces)} |->
           UNION {Range(interfaces[i].extends) :
                      i \in {j \in 1..Len(interfaces) : interfaces[j].name = n}}]

RECURSIVE populate_interface_extends_rec(_, _, _, _)
RECURSIVE populate_each(_, _, _, _)
\* a faulty closure: the directly extended interfaces are dropped
populate_interface_extends_rec_indirect(interface_extends, key, ord, depth) ==
    IF key \notin DOMAIN interface_extends
    THEN Err("unwrap on a None value")
    ELSE IF depth = 0 THEN Err("stack overflow")
    ELSE Bind(interface_extends[key], LAMBDA interfaces :
             Then(populate_each(interface_extends,
                                IterationOrder(interfaces, ord), ord, depth - 1),
                  LAMBDA after :
                      Ok([after EXCEPT ![key] =
                             UNION {after[i] : i \in interfaces}])))

\* a guarded closure: an interface met again below itself is left as it is
populate_interface_extends_rec_guarded(interface_extends, key, ord, depth) ==
    IF key \notin DOMAIN interface_extends
    THEN Err("unwrap on a None value")
    ELSE IF depth = 0 THEN Ok(interface_extends)
    ELSE Bind(interface_extends[key], LAMBDA interfaces :
             Then(populate_each(interface_extends,
                                IterationOrder(interfaces, ord), ord, depth - 1),
                  LAMBDA after :
                      Ok([after EXCEPT ![key] =
                             interfaces \cup UNION {after[i] : i \in interfaces}])))

populate_interface_extends_rec(interface_extends, key, ord, depth) ==
    IF key \notin DOMAIN interface_extends
    THEN Err("unwrap on a None value")
    ELSE IF depth = 0 THEN Err("stack overflow")
    ELSE Bind(interface_extends[key], LAMBDA interfaces :
             Then(populate_each(interface_extends,
                                IterationOrder(interfaces, ord), ord, depth - 1),
                  LAMBDA after :
                      Ok([after EXCEPT ![key] =
                             interfaces \cup UNION {after[i] : i \in interfaces}])))

populate_each(interface_extends, keys, ord, depth) ==
    IF keys = <<>> THEN Ok(interface_extends)
    ELSE Then(populate_interface_extends_rec(interface_extends, Head(keys),
                                             ord, depth),
              LAMBDA populated :
                  Bind(Tail(keys), LAMBDA rest :
                      populate_each(populated, rest, ord, depth)))

\* A recursion deeper than the number of keys has a key twice on the stack
\* and never returns: the stack overflows.
populate_interface_extends(interface_extends, ord) ==
    Bind(interface_extends, LAMBDA map :
        Bind(IterationOrder(DOMAIN map, ord), LAMBDA keys :
            populate_each(map, keys, ord, Cardinality(DOMAIN map))))

\* a faulty class -> superclass map: a class without an extends clause gets
\* no entry
class_extends_map_declared_only(definitions) ==
    LET classes == SelectSeq(definitions.definitions \o definitions.metadata,
                             LAMBDA d : d.kind = "Class" /\ d.extends.some)
    IN [n \in {classes[i].name : i \in 1..Len(classes)} |->
           LET last == CHOOSE i \in 1..Len(classes) :
                           /\ classes[i].name = n
                           /\ \A j \in (i + 1)..Len(classes) : classes[j].name # n
           IN classes[last].extends.v]

\* the class -> superclass map: local classes, then metadata classes, each
\* insert replacing an earlier entry of the same name
class_extends_map(definitions) ==
    LET classes == SelectSeq(definitions.definitions \o definitions.metadata,
                             LAMBDA d : d.kind = "Class")
    IN [n \in {classes[i].name : i \in 1..Len(classes)} |->
           LET last == CHOOSE i \in 1..Len(classes) :
                           /\ classes[i].name = n
                           /\ \A j \in (i + 1)..Len(classes) : classes[j].name # n
           IN IF classes[last].extends.some THEN classes[last].extends.v
              ELSE JavaLangObject]

\* the loop that collects the superclasses of `current`; a walk that finds
\* more entries than the map has keys is on a cycle and never ends
RECURSIVE transitive_extends_from(_, _, _)
transitive_extends_from(extends_map, current, fuel) ==
    IF current \notin DOMAIN extends_map THEN Ok(<<>>)
    ELSE IF fuel = 0 THEN Err("never terminates")
    ELSE Bind(extends_map[current], LAMBDA super_class :
             Then(transitive_extends_from(extends_map, super_class, fuel - 1),
                  LAMBDA rest :
                      Ok(<<with_double_colons(super_class)>> \o rest)))

\* a faulty walk: a superclass that is neither declared nor the root is an
\* error
transitive_extends_strict(extends_map, class_name) ==
    Then(transitive_extends_from(extends_map, class_name,
                                 Cardinality(DOMAIN extends_map)),
         LAMBDA chain :
             IF chain # <<>> /\ chain[Len(chain)] # with_double_colons(JavaLangObject)
             THEN Err("unwrap on a None value")
             ELSE Ok(chain))

\* the superclass chain of the class `class_name`
transitive_extends(extends_map, class_name) ==
    transitive_extends_from(extends_map, class_name,
                            Cardinality(DOMAIN extends_map))

\* where `x` goes in the sorted sequence `sorted`: after every element
\* that is not greater
insert_sorted(sorted, x) ==
    LET k == Cardinality({i \in 1..Len(sorted) :
                 ~StrLess(to_string(x), to_string(sorted[i]))})
    IN SubSeq(sorted, 1, k) \o <<x>> \o SubSeq(sorted, k + 1, Len(sorted))

\* a faulty sort: the sequence as it is
unsorted(streams) == streams

\* sort_by on the string form (stable)
RECURSIVE sort_by_string(_)
sort_by_string(streams) ==
    IF streams = <<>> THEN <<>>
    ELSE Bind(sort_by_string(SubSeq(streams, 1, Len(streams) - 1)),
              LAMBDA sorted : insert_sorted(sorted, streams[Len(streams)]))

\* the set the declared interfaces of a class are collected into
implements_set(implements, interface_extends) ==
    UNION {interface_extends[implements[i]] : i \in 1..Len(implements)}
    \cup Range(implements)

\* the iteration of that set, mapped to paths
implements_unsorted(implements, interface_extends, ord) ==
    Bind(IterationOrder(implements_set(implements, interface_extends), ord),
         LAMBDA names : [i \in 1..Len(names) |-> with_double_colons(names[i])])

\* a faulty resolution: the declared interfaces only, without the
\* interfaces they extend
resolve_implements_declared_only(implements, interface_extends, ord) ==
    IF \E i \in 1..Len(implements) : implements[i] \notin DOMAIN interface_extends
    THEN Err("unwrap on a None value")
    ELSE Ok(sort_by_string(
                Bind(IterationOrder(Range(implements), ord), LAMBDA names :
                    [i \in 1..Len(names) |-> with_double_colons(names[i])])))

\* a faulty set: an interface without a map entry is skipped
implements_set_lenient(implements, interface_extends) ==
    UNION {interface_extends[implements[i]] :
               i \in {j \in 1..Len(implements) :
                          implements[j] \in DOMAIN interface_extends}}
    \cup (Range(implements) \cap DOMAIN interface_extends)

\* a faulty resolution: an interface without a map entry is skipped
resolve_implements_lenient(implements, interface_extends, ord) ==
    Ok(sort_by_string(
           Bind(IterationOrder(implements_set_lenient(implements,
                                                      interface_extends), ord),
                LAMBDA names :
                    [i \in 1..Len(names) |-> with_double_colons(names[i])])))

\* the resolved implements list of a class
resolve_implements(implements, interface_extends, ord) ==
    IF \E i \in 1..Len(implements) : implements[i] \notin DOMAIN interface_extends
    THEN Err("unwrap on a None value")
    ELSE Ok(sort_by_string(
                implements_unsorted(implements, interface_extends, ord)))

to_generator_class(definition, interface_extends, extends_map, ord) ==
    Then(transitive_extends(extends_map, definition.name), LAMBDA chain :
    Bind(with_slashes(definition.name), LAMBDA string_signature :
    Then(resolve_implements(definition.implements, interface_extends, ord),
         LAMBDA implements :
    Bind(SelectSeq(definition.methods, LAMBDA m : m.is_static),
         LAMBDA static_methods :
    Bind(SelectSeq(definition.methods, LAMBDA m : ~m.is_static),
         LAMBDA methods :
    Ok([kind |-> "Class",
        class |-> name(definition.name),
        public |-> public_token(definition.public),
        super_class |-> IF definition.extends.some
                        THEN with_double_colons(definition.extends.v)
                        ELSE with_double_colons(JavaLangObject),
        transitive_extends |-> chain,
        implements |-> implements,
        signature |-> Literal(string_signature),
        full_signature |-> Literal(<<76>> \o string_signature \o <<59>>),
        constructors |->
            [i \in 1..Len(definition.constructors) |->
                to_generator_constructor(definition.constructors[i])],
        methods |->
            [i \in 1..Len(methods) |-> to_generator_method(methods[i])],
        static_methods |->
            [i \in 1..Len(static_methods) |->
                to_generator_method(static_methods[i])]]))))))

\* a faulty resolution: the extended interfaces in ascending order
to_generator_interface_sorted(definition) ==
    Ok([kind |-> "Interface",
        interface |-> name(definition.name),
        public |-> public_token(definition.public),
        extends |-> sort_by_string([i \in 1..Len(definition.extends) |->
                        with_double_colons(definition.extends[i])])])

to_generator_interface(definition) ==
    Ok([kind |-> "Interface",
        interface |-> name(definition.name),
        public |-> public_token(definition.public),
        extends |-> [i \in 1..Len(definition.extends) |->
                        with_double_colons(definition.extends[i])]])

to_generator_definition(definition, interface_extends, extends_map, ord) ==
    IF definition.kind = "Class"
    THEN to_generator_class(definition, interface_extends, extends_map, ord)
    ELSE to_generator_interface(definition)

\* a faulty resolution: a definition that fails is left out
to_generator_data_skipping(definitions, ord) ==
    Then(populate_interface_extends(interface_extends_map(definitions), ord),
         LAMBDA interface_extends :
    Bind(class_extends_map(definitions), LAMBDA extends_map :
    Bind([i \in 1..Len(definitions.definitions) |->
             to_generator_definition(definitions.definitions[i],
                                     interface_extends, extends_map, ord)],
         LAMBDA results :
        Collect(SelectSeq(results, LAMBDA r : r.ok)))))

\* a faulty resolution: the interfaces the metadata class stubs implement
\* are looked up as well
to_generator_data_checking_stubs(definitions, ord) ==
    Then(populate_interface_extends(interface_extends_map(definitions), ord),
         LAMBDA interface_extends :
    Bind(class_extends_map(definitions), LAMBDA extends_map :
        IF \E i \in 1..Len(definitions.metadata) :
               /\ definitions.metadata[i].kind = "Class"
               /\ ~(Range(definitions.metadata[i].implements)
                        \subseteq DOMAIN interface_extends)
        THEN Err("unwrap on a None value")
        ELSE Collect([i \in 1..Len(definitions.definitions) |->
                         to_generator_definition(definitions.definitions[i],
                                                 interface_extends,
                                                 extends_map, ord)])))

to_generator_data(definitions, ord) ==
    Then(populate_interface_extends(interface_extends_map(definitions), ord),
         LAMBDA interface_extends :
    Bind(class_extends_map(definitions), LAMBDA extends_map :
        Collect([i \in 1..Len(definitions.definitions) |->
                    to_generator_definition(definitions.definitions[i],
                                            interface_extends, extends_map,
                                            ord)])))

-----------------------------------------------------------------------------
(* Emission.  The emitted token stream is modelled item by item: one       *)
(* record per emitted Rust item, holding what the quote! template is       *)
(* filled with.                                                            *)

generate_class_method(method) ==
    [fn |-> method.name, public |-> method.public, receiver |-> "&self",
     argument_names |-> method.argument_names,
     argument_types |-> method.argument_types,
     return_type |-> method.return_type,
     call |-> "call_method", java_name |-> method.java_name]

\* a faulty emission: a static method that takes the receiver
generate_static_class_method_on_self(method) ==
    [fn |-> method.name, public |-> method.public, receiver |-> "&self",
     argument_names |-> method.argument_names,
     argument_types |-> method.argument_types,
     return_type |-> method.return_type,
     call |-> "call_method", java_name |-> method.java_name]

generate_static_class_method(method) ==
    [fn |-> method.name, public |-> method.public, receiver |-> "env",
     argument_names |-> method.argument_names,
     argument_types |-> method.argument_types,
     return_type |-> method.return_type,
     call |-> "call_static_method", java_name |-> method.java_name]

generate_constructor(method) ==
    [fn |-> method.name, public |-> method.public, receiver |-> "env",
     argument_names |-> method.argument_names,
     argument_types |-> method.argument_types,
     return_type |-> "Self",
     call |-> "call_constructor"]

\* the functions the template of a class has whatever the class declares
builtin_functions ==
    <<Ident(str_get_class), Ident(str_clone), Ident(str_to_string)>>

generate_class_definition(definition) ==
    LET class == definition.class
    IN <<[item |-> "struct", name |-> class, public |-> definition.public,
          object |-> definition.super_class],
         [item |-> "impl JavaType", for |-> class,
          signature |-> definition.full_signature],
         [item |-> "impl ToJni", for |-> class],
         [item |-> "impl FromJni", for |-> class,
          from |-> definition.super_class],
         [item |-> "impl Cast", for |-> class, target |-> <<class>>]>>
       \o [i \in 1..Len(definition.transitive_extends) |->
              [item |-> "impl Cast", for |-> class,
               target |-> definition.transitive_extends[i]]]
       \o <<[item |-> "impl Deref", for |-> class,
             target |-> definition.super_class],
            [item |-> "impl", for |-> class,
             get_class |-> definition.signature,
             functions |->
                 [i \in 1..Len(definition.constructors) |->
                     generate_constructor(definition.constructors[i])]
                 \o [i \in 1..Len(definition.methods) |->
                        generate_class_method(definition.methods[i])]
                 \o [i \in 1..Len(definition.static_methods) |->
                        generate_static_class_method(
                            definition.static_methods[i])]],
            [item |-> "impl Display", for |-> class],
            [item |-> "impl PartialEq", for |-> class],
            [item |-> "impl Eq", for |-> class]>>
       \o [i \in 1..Len(definition.implements) |->
              [item |-> "impl trait", trait |-> definition.implements[i],
               for |-> class]]

generate_interface_definition(definition) ==
    <<[item |-> "trait", name |-> definition.interface,
       public |-> definition.public, supertraits |-> definition.extends]>>

\* a faulty emission: the casts to the ancestors left out
generate_definition_reflexive_cast_only(definition) ==
    IF definition.kind = "Class"
    THEN SelectSeq(generate_class_definition(definition),
                   LAMBDA x : x.item = "impl Cast" =>
                                  x.target = <<definition.class>>)
    ELSE generate_interface_definition(definition)

generate_definition(definition) ==
    IF definition.kind = "Class" THEN generate_class_definition(definition)
    ELSE generate_interface_definition(definition)

RECURSIVE generate_from(_, _)
generate_from(definitions, i) ==
    IF i > Len(definitions) THEN <<>>
    ELSE generate_definition(definitions[i]) \o generate_from(definitions, i + 1)

\* a faulty emission: the classes first, the interfaces after them
generate_classes_first(generator_data) ==
    generate_from(SelectSeq(generator_data, LAMBDA d : d.kind = "Class")
                  \o SelectSeq(generator_data, LAMBDA d : d.kind # "Class"), 1)

generate(generator_data) == generate_from(generator_data, 1)

-----------------------------------------------------------------------------
(* Inputs of the generator.                                                *)

NameA == <<Ident(str_A)>>
NameB == <<Ident(str_B)>>
NameC == <<Ident(str_C)>>
NameI == <<Ident(str_I)>>
NameJ == <<Ident(str_J)>>
NameK == <<Ident(str_K)>>

EmptyBody == Group("Brace", <<>>)

\* top-level chunks: a declaration with its body, or a header without one
LocalChunks ==
    { \* class A extends B {}
      <<Ident(str_class), Ident(str_A), Ident(str_extends), Ident(str_B),
        EmptyBody>>,
      \* class B extends C {}
      <<Ident(str_class), Ident(str_B), Ident(str_extends), Ident(str_C),
        EmptyBody>>,
      \* public class C implements J, I { C(int a); static I a(); }
      <<Ident(str_public), Ident(str_class), Ident(str_C),
        Ident(str_implements), Ident(str_J), Comma, Ident(str_I),
        Group("Brace",
              <<Ident(str_C),
                Group("Parenthesis", <<Ident(str_int), Ident(str_a)>>),
                Semicolon,
                Ident(str_static), Ident(str_I), Ident(str_a),
                Group("Parenthesis", <<>>), Semicolon>>)>>,
      \* class C {}
      <<Ident(str_class), Ident(str_C), EmptyBody>>,
      \* class A implements J {}
      <<Ident(str_class), Ident(str_A), Ident(str_implements), Ident(str_J),
        EmptyBody>>,
      \* interface J extends I {}
      <<Ident(str_interface), Ident(str_J), Ident(str_extends), Ident(str_I),
        EmptyBody>>,
      \* public interface I {}
      <<Ident(str_public), Ident(str_interface), Ident(str_I), EmptyBody>>,
      \* interface K extends J, I {}
      <<Ident(str_interface), Ident(str_K), Ident(str_extends), Ident(str_J),
        Comma, Ident(str_I), EmptyBody>>,
      \* interface K extends J {}
      <<Ident(str_interface), Ident(str_K), Ident(str_extends), Ident(str_J),
        EmptyBody>>,
      \* class B            (a header with no body)
      <<Ident(str_class), Ident(str_B)>>,
      \* class              (no name, no body)
      <<Ident(str_class)>> }

\* metadata stubs, each with its terminator
MetadataStubs ==
    { \* class B extends C;
      <<Ident(str_class), Ident(str_B), Ident(str_extends), Ident(str_C),
        Semicolon>>,
      \* class B;
      <<Ident(str_class), Ident(str_B), Semicolon>>,
      \* class C implements K;
      <<Ident(str_class), Ident(str_C), Ident(str_implements), Ident(str_K),
        Semicolon>>,
      \* class java.lang.Object;
      <<Ident(str_class), Ident(str_java), Dot, Ident(str_lang), Dot,
        Ident(str_Object), Semicolon>>,
      \* interface I {}
      <<Ident(str_interface), Ident(str_I), EmptyBody>>,
      \* interface J extends I;
      <<Ident(str_interface), Ident(str_J), Ident(str_extends), Ident(str_I),
        Semicolon>>,
      \* interface I extends J;
      <<Ident(str_interface), Ident(str_I), Ident(str_extends), Ident(str_J),
        Semicolon>>,
      \* interface K extends K;
      <<Ident(str_interface), Ident(str_K), Ident(str_extends), Ident(str_K),
        Semicolon>> }

RECURSIVE Flatten(_)
Flatten(seqs) ==
    IF seqs = <<>> THEN <<>> ELSE Head(seqs) \o Flatten(Tail(seqs))

\* the input made of the top-level chunks `ls` and, when `block` is set,
\* a trailing metadata block holding the stubs `ms`
InputOf(ls, ms, block) ==
    Flatten(ls) \o (IF block
                    THEN <<Ident(str_metadata), Group("Brace", Flatten(ms))>>
                    ELSE <<>>)

\* every name in an interface position of the parsed definitions
InterfaceNames(definitions) ==
    LET all == definitions.definitions \o definitions.metadata
    IN UNION {IF all[i].kind = "Interface"
              THEN {all[i].name} \cup Range(all[i].extends)
              ELSE Range(all[i].implements) : i \in 1..Len(all)}

Orders(S) ==
    {f \in [1..Cardinality(S) -> S] : \A x \in S : \E i \in DOMAIN f : f[i] = x}

-----------------------------------------------------------------------------
(* The generator: java_generate_impl, step by step.                        *)

\* the generator runs at compile time: no JniEnv is in use
\* a thread the Java VM has not attached, without a JniEnv
NoTokens == [no_exception |-> 0, exception |-> 0]

NoThread ==
    /\ attached = FALSE
    /\ envs = <<>>
    /\ live_tokens = NoTokens

NoJniEnv ==
    /\ has_token = TRUE
    /\ exception_pending = FALSE
    /\ jni_calls = <<>>
    /\ returned = <<>>
    /\ NoThread

\* at most MaxDecls declarations; without stubs the metadata block may be
\* left out
Init ==
    /\ \E l \in 0..MaxDecls : \E m \in 0..(MaxDecls - l) :
           \E ls \in [1..l -> LocalChunks], ms \in [1..m -> MetadataStubs] :
               \E block \in IF m = 0 THEN BOOLEAN ELSE {TRUE} :
                   input = InputOf(ls, ms, block)
    /\ pc = "start"
    /\ hash_order = <<>>
    /\ name_result = None
    /\ header_result = None
    /\ body_result = None
    /\ parsed = None
    /\ data = None
    /\ output = None
    /\ error = ""
    /\ NoJniEnv

Parse ==
    /\ pc = "start"
    /\ \E r \in {parse_java_definition(input)} :
           IF r.ok
           THEN /\ parsed' = Some(r.v)
                /\ pc' = "parsed"
                /\ error' = error
           ELSE /\ parsed' = parsed
                /\ pc' = "aborted"
                /\ error' = r.err
    /\ UNCHANGED jni_vars
    /\ UNCHANGED thread_vars
    /\ UNCHANGED <<body_result, input, hash_order, name_result, header_result,
                   data, output>>

\* the hash order of the maps and sets is any order
Resolve ==
    /\ pc = "parsed"
    /\ \E ord \in Orders(InterfaceNames(parsed.v)) :
           /\ hash_order' = ord
           /\ \E r \in {to_generator_data(parsed.v, ord)} :
                  IF r.ok
                  THEN /\ data' = Some(r.v)
                       /\ pc' = "resolved"
                       /\ error' = error
                  ELSE /\ data' = data
                       /\ pc' = IF r.err = "never terminates" THEN "diverged"
                                ELSE "aborted"
                       /\ error' = r.err
    /\ UNCHANGED jni_vars
    /\ UNCHANGED thread_vars
    /\ UNCHANGED <<body_result, input, name_result, header_result, parsed, output>>

Generate ==
    /\ pc = "resolved"
    /\ output' = Some(generate(data.v))
    /\ pc' = "done"
    /\ UNCHANGED jni_vars
    /\ UNCHANGED thread_vars
    /\ UNCHANGED <<body_result, input, hash_order, name_result, header_result,
                   parsed, data, error>>

Next == Parse \/ Resolve \/ Generate

Spec == Init /\ [][Next]_vars

-----------------------------------------------------------------------------
(* JavaName::from_tokens on its own, over every short token run.           *)

NameTokens ==
    {Ident(str_a), Ident(str_B), Dot, Comma, Literal(<<49>>),
     Group("Parenthesis", <<>>)}

InitName ==
    /\ \E n \in 0..MaxNameLen : input \in [1..n -> NameTokens]
    /\ pc = "start"
    /\ hash_order = <<>>
    /\ name_result = None
    /\ header_result = None
    /\ body_result = None
    /\ parsed = None
    /\ data = None
    /\ output = None
    /\ error = ""
    /\ NoJniEnv

FromTokens ==
    /\ pc = "start"
    /\ name_result' = Some(from_tokens(input))
    /\ pc' = "returned"
    /\ UNCHANGED jni_vars
    /\ UNCHANGED thread_vars
    /\ UNCHANGED <<body_result, input, hash_order, header_result, parsed, data,
                   output, error>>

NextName == FromTokens

SpecName == InitName /\ [][NextName]_vars

-----------------------------------------------------------------------------
(* parse_class_header on its own, over every short header.                 *)

HeaderTokens ==
    {Ident(str_A), Ident(str_I), Ident(str_extends), Ident(str_implements),
     Comma, Dot}

InitHeader ==
    /\ \E n \in 0..MaxHeaderLen : input \in [1..n -> HeaderTokens]
    /\ pc = "start"
    /\ hash_order = <<>>
    /\ name_result = None
    /\ header_result = None
    /\ body_result = None
    /\ parsed = None
    /\ data = None
    /\ output = None
    /\ error = ""
    /\ NoJniEnv

ParseClassHeader ==
    /\ pc = "start"
    /\ header_result' = Some(parse_class_header(input))
    /\ pc' = "returned"
    /\ UNCHANGED jni_vars
    /\ UNCHANGED thread_vars
    /\ UNCHANGED <<body_result, input, hash_order, name_result, parsed, data,
                   output, error>>

NextHeader == ParseClassHeader

SpecHeader == InitHeader /\ [][NextHeader]_vars

-----------------------------------------------------------------------------
(* The class body parser on its own, over every short body of a class      *)
(* named C or a.C.                                                         *)

BodyTokens ==
    {Ident(str_public), Ident(str_static), Ident(str_C), Ident(str_a), Dot,
     Semicolon, Group("Parenthesis", <<>>)}

BodyClassNames == {<<Ident(str_C)>>, <<Ident(str_a), Ident(str_C)>>}

InitBody ==
    /\ \E n \in 0..MaxBodyLen :
           \E body \in [1..n -> BodyTokens], class_name \in BodyClassNames :
               input = [class_name |-> class_name, body |-> body]
    /\ pc = "start"
    /\ hash_order = <<>>
    /\ name_result = None
    /\ header_result = None
    /\ body_result = None
    /\ parsed = None
    /\ data = None
    /\ output = None
    /\ error = ""
    /\ NoJniEnv

ParseClassBody ==
    /\ pc = "start"
    /\ body_result' = Some(parse_class_body(input.body, input.class_name))
    /\ pc' = "returned"
    /\ UNCHANGED jni_vars
    /\ UNCHANGED thread_vars
    /\ UNCHANGED <<input, hash_order, name_result, header_result, parsed, data,
                   output, error>>

NextBody == ParseClassBody

SpecBody == InitBody /\ [][NextBody]_vars

-----------------------------------------------------------------------------
(* The generator on a single class with members: constructors, instance    *)
(* methods and static methods over every primitive type and two class      *)
(* types.                                                                  *)

Parenthesis(ts) == Group("Parenthesis", ts)

TypeAB == <<Ident(str_a), Dot, Ident(str_B)>>

\* the member declarations of a class named class_name, no terminators
Members(class_name) ==
    { \* C()
      with_dots(class_name) \o <<Parenthesis(<<>>)>>,
      \* public C(int a, a.B b)
      <<Ident(str_public)>> \o with_dots(class_name)
          \o <<Parenthesis(<<Ident(str_int), Ident(str_a), Comma>> \o TypeAB
                           \o <<Ident(str_b)>>)>>,
      \* long c(char a, float b)
      <<Ident(str_long), Ident(str_c),
        Parenthesis(<<Ident(str_char), Ident(str_a), Comma, Ident(str_float),
                      Ident(str_b)>>)>>,
      \* public byte d(boolean a)
      <<Ident(str_public), Ident(str_byte), Ident(str_d),
        Parenthesis(<<Ident(str_boolean), Ident(str_a)>>)>>,
      \* static float e(double a, long b)
      <<Ident(str_static), Ident(str_float), Ident(str_e),
        Parenthesis(<<Ident(str_double), Ident(str_a), Comma, Ident(str_long),
                      Ident(str_b)>>)>>,
      \* public static a.B f(I a, byte b)
      <<Ident(str_public), Ident(str_static)>> \o TypeAB
          \o <<Ident(str_f),
               Parenthesis(<<Ident(str_I), Ident(str_a), Comma, Ident(str_byte),
                             Ident(str_b)>>)>>,
      \* int g()
      <<Ident(str_int), Ident(str_g), Parenthesis(<<>>)>>,
      \* static char h()
      <<Ident(str_static), Ident(str_char), Ident(str_h), Parenthesis(<<>>)>>,
      \* boolean a()
      <<Ident(str_boolean), Ident(str_a), Parenthesis(<<>>)>>,
      \* static double b()
      <<Ident(str_static), Ident(str_double), Ident(str_b), Parenthesis(<<>>)>>,
      \* I c()
      <<Ident(str_I), Ident(str_c), Parenthesis(<<>>)>> }

MemberClassNames ==
    {<<Ident(str_C)>>, <<Ident(str_a), Ident(str_C)>>,
     <<Ident(str_a), Ident(str_B), Ident(str_C)>>}

\* class <class_name> { <member>; ... }
ClassOf(class_name, members) ==
    <<Ident(str_class)>> \o with_dots(class_name)
        \o <<Group("Brace",
                   Flatten([i \in 1..Len(members) |->
                               members[i] \o <<Semicolon>>]))>>

InitMembers ==
    /\ \E class_name \in MemberClassNames : \E n \in 0..MaxMembers :
           \E members \in [1..n -> Members(class_name)] :
               input = ClassOf(class_name, members)
    /\ pc = "start"
    /\ hash_order = <<>>
    /\ name_result = None
    /\ header_result = None
    /\ body_result = None
    /\ parsed = None
    /\ data = None
    /\ output = None
    /\ error = ""
    /\ NoJniEnv

SpecMembers == InitMembers /\ [][Next]_vars

-----------------------------------------------------------------------------
(* The generator on classes that implement interfaces, with superclasses   *)
(* and metadata class stubs that implement interfaces too.                 *)

ImplementsChunks ==
    { \* class A extends C implements I {}
      <<Ident(str_class), Ident(str_A), Ident(str_extends), Ident(str_C),
        Ident(str_implements), Ident(str_I), EmptyBody>>,
      \* class B extends C {}
      <<Ident(str_class), Ident(str_B), Ident(str_extends), Ident(str_C),
        EmptyBody>>,
      \* class C implements I {}
      <<Ident(str_class), Ident(str_C), Ident(str_implements), Ident(str_I),
        EmptyBody>>,
      \* class A implements J {}
      <<Ident(str_class), Ident(str_A), Ident(str_implements), Ident(str_J),
        EmptyBody>>,
      \* class C {}
      <<Ident(str_class), Ident(str_C), EmptyBody>>,
      \* public interface I {}
      <<Ident(str_public), Ident(str_interface), Ident(str_I), EmptyBody>> }

ImplementsStubs ==
    { \* class C implements K;
      <<Ident(str_class), Ident(str_C), Ident(str_implements), Ident(str_K),
        Semicolon>>,
      \* class B extends C implements I;
      <<Ident(str_class), Ident(str_B), Ident(str_extends), Ident(str_C),
        Ident(str_implements), Ident(str_I), Semicolon>>,
      \* class java.lang.Object implements I;
      <<Ident(str_class), Ident(str_java), Dot, Ident(str_lang), Dot,
        Ident(str_Object), Ident(str_implements), Ident(str_I), Semicolon>>,
      \* interface I {}
      <<Ident(str_interface), Ident(str_I), EmptyBody>>,
      \* interface J extends I;
      <<Ident(str_interface), Ident(str_J), Ident(str_extends), Ident(str_I),
        Semicolon>> }

InitImplements ==
    /\ \E l \in 0..MaxDecls : \E m \in 0..(MaxDecls - l) :
           \E ls \in [1..l -> ImplementsChunks],
              ms \in [1..m -> ImplementsStubs] :
               \E block \in IF m = 0 THEN BOOLEAN ELSE {TRUE} :
                   input = InputOf(ls, ms, block)
    /\ pc = "start"
    /\ hash_order = <<>>
    /\ name_result = None
    /\ header_result = None
    /\ body_result = None
    /\ parsed = None
    /\ data = None
    /\ output = None
    /\ error = ""
    /\ NoJniEnv

SpecImplements == InitImplements /\ [][Next]_vars

-----------------------------------------------------------------------------
(* The generator on malformed inputs: declarations with a wrong keyword    *)
(* and metadata blocks with a wrong delimiter, among well-formed ones.     *)

StructureChunks ==
    { \* class A {}
      <<Ident(str_class), Ident(str_A), EmptyBody>>,
      \* public interface I {}
      <<Ident(str_public), Ident(str_interface), Ident(str_I), EmptyBody>>,
      \* invalid A {}
      <<Ident(str_invalid), Ident(str_A), EmptyBody>>,
      \* public invalid A {}
      <<Ident(str_public), Ident(str_invalid), Ident(str_A), EmptyBody>>,
      \* class a b {}
      <<Ident(str_class), Ident(str_a), Ident(str_b), EmptyBody>>,
      \* public {}
      <<Ident(str_public), EmptyBody>>,
      \* invalid 1
      <<Ident(str_invalid), Literal(<<49>>)>> }

MetadataTails ==
    { \* no metadata block
      <<>>,
      \* metadata a
      <<Ident(str_metadata), Ident(str_a)>>,
      \* metadata ()
      <<Ident(str_metadata), Parenthesis(<<>>)>>,
      \* metadata []
      <<Ident(str_metadata), Group("Bracket", <<>>)>>,
      \* metadata {}
      <<Ident(str_metadata), Group("Brace", <<>>)>>,
      \* metadata { class B; }
      <<Ident(str_metadata),
        Group("Brace", <<Ident(str_class), Ident(str_B), Semicolon>>)>>,
      \* metadata { a }
      <<Ident(str_metadata), Group("Brace", <<Ident(str_a)>>)>>,
      \* metadata { class ; }
      <<Ident(str_metadata), Group("Brace", <<Ident(str_class), Semicolon>>)>>,
      \* metadata { public class B; }
      <<Ident(str_metadata),
        Group("Brace", <<Ident(str_public), Ident(str_class), Ident(str_B),
                         Semicolon>>)>>,
      \* metadata { interface I {} invalid B; }
      <<Ident(str_metadata),
        Group("Brace", <<Ident(str_interface), Ident(str_I), EmptyBody,
                         Ident(str_invalid), Ident(str_B), Semicolon>>)>> }

InitStructure ==
    /\ \E n \in 0..MaxChunks :
           \E chunks \in [1..n -> StructureChunks], tail \in MetadataTails :
               input = Flatten(chunks) \o tail
    /\ pc = "start"
    /\ hash_order = <<>>
    /\ name_result = None
    /\ header_result = None
    /\ body_result = None
    /\ parsed = None
    /\ data = None
    /\ output = None
    /\ error = ""
    /\ NoJniEnv

SpecStructure == InitStructure /\ [][Next]_vars

-----------------------------------------------------------------------------
(* The exception tokens of a JniEnv.  A panic is caught by the caller,     *)
(* who may go on using the JniEnv.                                         *)

\* the runtime library runs no generator
NoGenerator ==
    /\ input = <<>>
    /\ pc = "start"
    /\ hash_order = <<>>
    /\ name_result = None
    /\ header_result = None
    /\ body_result = None
    /\ parsed = None
    /\ data = None
    /\ output = None
    /\ error = ""

\* the panic messages of token(), the quotes of the names left out
SecondToken ==
    "Trying to obtain a second NoException token from the JniEnv value."

PendingException ==
    "Trying to obtain a NoException token when there is a pending exception."

\* a faulty token(): the JniEnv is never marked
JniEnv_token_unmarked(env_has_token, pending) ==
    IF ~env_has_token
    THEN [has_token |-> env_has_token, result |-> SecondToken, jni |-> <<>>]
    ELSE IF pending
    THEN [has_token |-> env_has_token, result |-> PendingException,
          jni |-> <<"ExceptionCheck">>]
    ELSE [has_token |-> env_has_token, result |-> "NoException",
          jni |-> <<"ExceptionCheck">>]

\* a faulty token(): the JniEnv is marked before the exception check
JniEnv_token_marked_first(env_has_token, pending) ==
    IF ~env_has_token
    THEN [has_token |-> env_has_token, result |-> SecondToken, jni |-> <<>>]
    ELSE IF pending
    THEN [has_token |-> FALSE, result |-> PendingException,
          jni |-> <<"ExceptionCheck">>]
    ELSE [has_token |-> FALSE, result |-> "NoException",
          jni |-> <<"ExceptionCheck">>]

\* JniEnv::token on a JniEnv with the given has_token field, the thread
\* with or without a pending exception: the field after the call, the
\* token or the panic message, and the JNI functions called
JniEnv_token(env_has_token, pending) ==
    IF ~env_has_token
    THEN [has_token |-> env_has_token, result |-> SecondToken, jni |-> <<>>]
    ELSE IF pending
    THEN [has_token |-> env_has_token, result |-> PendingException,
          jni |-> <<"ExceptionCheck">>]
    ELSE [has_token |-> FALSE, result |-> "NoException",
          jni |-> <<"ExceptionCheck">>]

\* a JniEnv as attach_generic and the native-call wrappers build it; a
\* native method may be entered with an exception pending
InitToken ==
    /\ has_token = TRUE
    /\ exception_pending \in BOOLEAN
    /\ jni_calls = <<>>
    /\ returned = <<>>
    /\ attached = TRUE
    /\ envs = <<exception_pending>>
    /\ live_tokens = NoTokens
    /\ NoGenerator

Token ==
    /\ Len(returned) < MaxTokenCalls
    /\ Len(jni_calls) < MaxJniCalls
    /\ \E r \in {JniEnv_token(has_token, exception_pending)} :
           /\ has_token' = r.has_token
           /\ returned' = Append(returned, r.result)
           /\ jni_calls' = jni_calls \o r.jni
    /\ UNCHANGED exception_pending
    /\ UNCHANGED generator_vars
    /\ UNCHANGED thread_vars

\* Java code called on the thread throws
JavaThrows ==
    /\ ~exception_pending
    /\ exception_pending' = TRUE
    /\ UNCHANGED <<has_token, jni_calls, returned>>
    /\ UNCHANGED generator_vars
    /\ UNCHANGED thread_vars

\* maybe_get_and_clear_exception
GetAndClearException ==
    /\ Len(jni_calls) + 2 <= MaxJniCalls
    /\ jni_calls' = jni_calls \o <<"ExceptionOccurred">>
                        \o (IF exception_pending THEN <<"ExceptionClear">>
                            ELSE <<>>)
    /\ exception_pending' = FALSE
    /\ UNCHANGED <<has_token, returned>>
    /\ UNCHANGED generator_vars
    /\ UNCHANGED thread_vars

NextToken == Token \/ JavaThrows \/ GetAndClearException

SpecToken == InitToken /\ [][NextToken]_vars

-----------------------------------------------------------------------------
\* A thread using the library: threads are attached to the Java VM and
\* detached from it, tokens are taken from the JniEnv, Java is called and
\* exceptions are unwrapped.

AlreadyAttached ==
    "panic: This thread is already attached to the JVM. Attaching a thread twice is not allowed."

UnexpectedGetEnv ==
    "panic: GetEnv JNI method returned an unexpected error code"

NewlyAttachedPending ==
    "panic: Newly attached thread has a pending exception."

CouldNotDetach == "panic: Could not detach the current thread."

DroppingWithException ==
    "panic: Dropping JniEnv with a pending exception is not allowed."

NoPendingException ==
    "panic: No pending exception in presence of an Exception token. Should not ever happen."

\* the statuses a JNI function returns
JniStatuses == {"JNI_OK", "JNI_ERR", "JNI_EDETACHED", "JNI_EVERSION"}

UnsupportedVersion ==
    "panic: Got upsupported version error when creating a Java VM."

GotDetached == "panic: Got EDETACHED when trying to attach a thread."

Panics == {AlreadyAttached, UnexpectedGetEnv, NewlyAttachedPending,
           CouldNotDetach, DroppingWithException, NoPendingException,
           UnsupportedVersion, GotDetached}

IsPanic(result) == result \in Panics

\* JavaVM::detach
JavaVM_detach(detach_status) ==
    [jni |-> <<"DetachCurrentThread">>,
     result |-> IF detach_status # "JNI_OK" THEN CouldNotDetach ELSE "()",
     detached |-> detach_status = "JNI_OK"]

\* drop of a JniEnv that detaches whatever is pending
JniEnv_drop_detaching(native_method_call, pending, detach_status) ==
    IF native_method_call
    THEN [jni |-> <<>>, result |-> "()", detached |-> FALSE]
    ELSE LET d == JavaVM_detach(detach_status)
         IN [jni |-> <<"ExceptionCheck">> \o d.jni, result |-> d.result,
             detached |-> d.detached]

\* impl Drop for JniEnv; has_exception calls ExceptionCheck
JniEnv_drop(native_method_call, pending, detach_status) ==
    IF native_method_call
    THEN [jni |-> <<>>, result |-> "()", detached |-> FALSE]
    ELSE IF pending
    THEN [jni |-> <<"ExceptionCheck", "ExceptionDescribe">>,
          result |-> DroppingWithException, detached |-> FALSE]
    ELSE LET d == JavaVM_detach(detach_status)
         IN [jni |-> <<"ExceptionCheck">> \o d.jni, result |-> d.result,
             detached |-> d.detached]

\* the JniEnv attach_generic builds after the attach function returned JNI_OK:
\* it is a native_method_call one while the pending exception is looked for,
\* and is dropped as such when the check panics
attached_env(jni, pending) ==
    IF pending
    THEN LET dropped == JniEnv_drop(TRUE, pending, "JNI_OK")
         IN [jni |-> jni \o <<"ExceptionCheck">> \o dropped.jni,
             result |-> NewlyAttachedPending, env |-> FALSE, attached |-> TRUE]
    ELSE [jni |-> jni \o <<"ExceptionCheck">>, result |-> "Ok(JniEnv)",
          env |-> TRUE, attached |-> TRUE]

\* what attach_generic does with the status of the attach function
attach_status_result(jni, attach_status, pending) ==
    IF attach_status = "JNI_OK" THEN attached_env(jni, pending)
    ELSE [jni |-> jni,
          result |-> IF attach_status = "JNI_EVERSION"
                     THEN UnsupportedVersion
                     ELSE IF attach_status = "JNI_EDETACHED"
                     THEN GotDetached
                     ELSE "Err(JniError::Unknown)",
          env |-> FALSE, attached |-> FALSE]

\* an attach_generic that calls the attach function whatever GetEnv answers
JavaVM_attach_generic_unchecked(attach_fn, get_env_status, attach_status, pending) ==
    attach_status_result(<<"GetEnv", attach_fn>>, attach_status, pending)

\* JavaVM::attach_generic: the JNI functions called, what the call comes to,
\* whether a JniEnv is handed out and whether the thread got attached
JavaVM_attach_generic(attach_fn, get_env_status, attach_status, pending) ==
    IF get_env_status = "JNI_EDETACHED"
    THEN attach_status_result(<<"GetEnv", attach_fn>>, attach_status, pending)
    ELSE [jni |-> <<"GetEnv">>,
          result |-> IF get_env_status = "JNI_OK" THEN AlreadyAttached
                     ELSE UnexpectedGetEnv,
          env |-> FALSE, attached |-> FALSE]

\* JavaVM::attach and JavaVM::attach_daemon
JavaVM_attach(daemon, get_env_status, attach_status, pending) ==
    JavaVM_attach_generic(IF daemon THEN "AttachCurrentThreadAsDaemon"
                          ELSE "AttachCurrentThread",
                          get_env_status, attach_status, pending)

\* maybe_get_and_clear_exception
maybe_get_and_clear_exception(pending) ==
    [jni |-> <<"ExceptionOccurred">>
                 \o (IF pending THEN <<"ExceptionClear">> ELSE <<>>),
     throwable |-> IF pending THEN Some("Throwable") ELSE None]

\* a get_and_clear_exception that hands out a Throwable whatever is pending
get_and_clear_exception_lenient(pending) ==
    [jni |-> maybe_get_and_clear_exception(pending).jni,
     result |-> "Throwable"]

\* get_and_clear_exception
get_and_clear_exception(pending) ==
    LET exception == maybe_get_and_clear_exception(pending)
    IN [jni |-> exception.jni,
        result |-> IF exception.throwable.some THEN exception.throwable.v
                   ELSE NoPendingException]

\* Exception::unwrap: the Exception token is consumed; a NoException token
\* is made when get_and_clear_exception returns
Exception_unwrap(pending) ==
    LET throwable == get_and_clear_exception(pending)
    IN [jni |-> throwable.jni,
        result |-> IF IsPanic(throwable.result) THEN throwable.result
                   ELSE "(Throwable, NoException)",
        token |-> ~IsPanic(throwable.result)]

\* what a JNI function that calls Java comes to: a value, or null with an
\* exception thrown, or null without one
JavaCalls == {[value |-> "value", throws |-> FALSE],
              [value |-> "null", throws |-> TRUE],
              [value |-> "null", throws |-> FALSE]}

\* from_nullable: null is taken for a thrown exception and the NoException
\* token is exchanged for an Exception one
from_nullable(value) ==
    IF value = "null" THEN "Err(Exception)" ELSE "Ok((value, token))"

\* a with_checked_exception that hands the Exception token's error on
\* without fetching the exception
with_checked_exception_unfetched(function_result, pending) ==
    IF function_result = "Ok((value, token))"
    THEN [jni |-> <<>>, result |-> "Ok(value)", cleared |-> FALSE]
    ELSE [jni |-> <<>>, result |-> "Err(Throwable)", cleared |-> FALSE]

\* with_checked_exception applied to a function that returned function_result
with_checked_exception(function_result, pending) ==
    IF function_result = "Ok((value, token))"
    THEN [jni |-> <<>>, result |-> "Ok(value)", cleared |-> FALSE]
    ELSE LET throwable == get_and_clear_exception(pending)
         IN [jni |-> throwable.jni,
             result |-> IF IsPanic(throwable.result) THEN throwable.result
                        ELSE "Err(Throwable)",
             cleared |-> TRUE]

Remove(s, i) == SubSeq(s, 1, i - 1) \o SubSeq(s, i + 1, Len(s))

Called(op, result) == Append(returned, [op |-> op, result |-> result])

\* a thread the Java VM does not know, as JavaVM::create leaves the thread
\* that made the VM, or a thread inside a native method, which the VM
\* attached and whose JniEnv is a native_method_call one
InitThread ==
    /\ attached \in BOOLEAN
    /\ envs = IF attached THEN <<TRUE>> ELSE <<>>
    /\ live_tokens = NoTokens
    /\ has_token = TRUE
    /\ exception_pending = FALSE
    /\ jni_calls = <<>>
    /\ returned = <<>>
    /\ NoGenerator

\* JavaVM::attach or JavaVM::attach_daemon; GetEnv answers JNI_OK on an
\* attached thread
Attach ==
    /\ Len(returned) < MaxCalls
    /\ \E daemon \in BOOLEAN, attach_status \in JniStatuses,
          pending \in BOOLEAN,
          get_env_status \in IF attached THEN {"JNI_OK"}
                             ELSE {"JNI_EDETACHED", "JNI_EVERSION"} :
        \E r \in {JavaVM_attach(daemon, get_env_status, attach_status,
                                pending)} :
            /\ jni_calls' = jni_calls \o r.jni
            /\ returned' = Called("attach", r.result)
            /\ attached' = (attached \/ r.attached)
            /\ envs' = IF r.env THEN Append(envs, FALSE) ELSE envs
            /\ has_token' = IF r.env THEN TRUE ELSE has_token
            /\ exception_pending' = IF r.attached THEN pending
                                    ELSE exception_pending
    /\ UNCHANGED live_tokens
    /\ UNCHANGED generator_vars

\* a JniEnv goes out of scope; the tokens borrowed from it are gone by then.
\* Whether ExceptionDescribe leaves the exception pending is for the VM to say
Drop ==
    /\ Len(returned) < MaxCalls
    /\ \E i \in DOMAIN envs, detach_status \in {"JNI_OK", "JNI_ERR"},
          described \in BOOLEAN :
        \E r \in {JniEnv_drop(envs[i], exception_pending, detach_status)} :
            /\ jni_calls' = jni_calls \o r.jni
            /\ returned' = Called("drop", r.result)
            /\ attached' = (attached /\ ~r.detached)
            /\ envs' = Remove(envs, i)
            /\ exception_pending' =
                   IF r.result = DroppingWithException
                   THEN exception_pending /\ described
                   ELSE exception_pending
    /\ live_tokens' = NoTokens
    /\ UNCHANGED has_token
    /\ UNCHANGED generator_vars

\* JniEnv::token on the thread's JniEnv
TakeToken ==
    /\ Len(returned) < MaxCalls
    /\ envs # <<>>
    /\ \E r \in {JniEnv_token(has_token, exception_pending)} :
        /\ has_token' = r.has_token
        /\ jni_calls' = jni_calls \o r.jni
        /\ returned' = Called("token", r.result)
        /\ live_tokens' =
               IF r.result = "NoException"
               THEN [live_tokens EXCEPT !.no_exception = @ + 1]
               ELSE live_tokens
    /\ UNCHANGED <<exception_pending, attached, envs>>
    /\ UNCHANGED generator_vars

\* a JNI function that calls Java, its result passed to from_nullable
CallNullable ==
    /\ Len(returned) < MaxCalls
    /\ live_tokens.no_exception > 0
    /\ \E call \in JavaCalls :
        \E r \in {from_nullable(call.value)} :
            /\ jni_calls' = Append(jni_calls, "CallObjectMethod")
            /\ returned' = Called("call", r)
            /\ exception_pending' = (exception_pending \/ call.throws)
            /\ live_tokens' =
                   IF r = "Err(Exception)"
                   THEN [no_exception |-> live_tokens.no_exception - 1,
                         exception |-> live_tokens.exception + 1]
                   ELSE live_tokens
    /\ UNCHANGED <<has_token, attached, envs>>
    /\ UNCHANGED generator_vars

\* with_checked_exception around a JNI function that calls Java
CallChecked ==
    /\ Len(returned) < MaxCalls
    /\ live_tokens.no_exception > 0
    /\ \E call \in JavaCalls :
        \E r \in {with_checked_exception(from_nullable(call.value),
                                         exception_pending \/ call.throws)} :
            /\ jni_calls' = Append(jni_calls, "CallObjectMethod") \o r.jni
            /\ returned' = Called("with_checked_exception", r.result)
            /\ exception_pending' =
                   ((exception_pending \/ call.throws) /\ ~r.cleared)
    /\ UNCHANGED <<has_token, live_tokens, attached, envs>>
    /\ UNCHANGED generator_vars

\* Exception::unwrap
Unwrap ==
    /\ Len(returned) < MaxCalls
    /\ live_tokens.exception > 0
    /\ \E r \in {Exception_unwrap(exception_pending)} :
        /\ jni_calls' = jni_calls \o r.jni
        /\ returned' = Called("unwrap", r.result)
        /\ exception_pending' = FALSE
        /\ live_tokens' =
               [no_exception |-> live_tokens.no_exception
                                     + (IF r.token THEN 1 ELSE 0),
                exception |-> live_tokens.exception - 1]
    /\ UNCHANGED <<has_token, attached, envs>>
    /\ UNCHANGED generator_vars

NextThread ==
    Attach \/ Drop \/ TakeToken \/ CallNullable \/ CallChecked \/ Unwrap

SpecThread == InitThread /\ [][NextThread]_vars

-----------------------------------------------------------------------------
(* Properties of the resolver.  The declarations are read from the parsed  *)
(* definitions; what the resolver should find is computed from them        *)
(* directly, without the resolver's maps.                                  *)

Declarations == parsed.v.definitions \o parsed.v.metadata

DeclaredInterfaces ==
    {Declarations[k].name :
         k \in {j \in 1..Len(Declarations) : Declarations[j].kind = "Interface"}}

DeclaredClasses ==
    {Declarations[k].name :
         k \in {j \in 1..Len(Declarations) : Declarations[j].kind = "Class"}}

ClassDeclarations(n) ==
    {Declarations[k] :
         k \in {j \in 1..Len(Declarations) :
                    Declarations[j].kind = "Class" /\ Declarations[j].name = n}}

\* every declaration of the class n names m as its superclass
Extends(n, m) ==
    /\ ClassDeclarations(n) # {}
    /\ \A d \in ClassDeclarations(n) : d.extends.some /\ d.extends.v = m

\* no declaration of the class n has an extends clause
NoExtends(n) ==
    /\ ClassDeclarations(n) # {}
    /\ \A d \in ClassDeclarations(n) : ~d.extends.some

\* the interfaces some declaration of the interface i extends
DirectlyExtends(i) ==
    UNION {Range(Declarations[k].extends) :
               k \in {j \in 1..Len(Declarations) :
                          /\ Declarations[j].kind = "Interface"
                          /\ Declarations[j].name = i}}

\* the interfaces reached from the set S over one to n extends edges
RECURSIVE ReachableIn(_, _)
ReachableIn(S, n) ==
    IF n = 0 \/ S = {} THEN {}
    ELSE LET step == UNION {DirectlyExtends(i) : i \in S}
         IN step \cup ReachableIn(step, n - 1)

Reachable(S) == ReachableIn(S, Len(Declarations))

\* the k-th top-level definition with its implements clause replaced
WithImplements(k, clause) ==
    [parsed.v EXCEPT !.definitions[k].implements = clause]

Reorderings(clause) ==
    {[i \in 1..Len(clause) |-> clause[p[i]]] :
         p \in {q \in [1..Len(clause) -> 1..Len(clause)] :
                    \A i, j \in 1..Len(clause) : q[i] = q[j] => i = j}}

\* C1: the resolved implements list of every class holds exactly the
\* interfaces of its implements clause and the interfaces reachable from
\* them over interface extends edges (local or metadata), each once, in
\* ascending order of their string form; the list is the same for every
\* reordering of the implements clause.
C1_ImplementsResolved ==
    data.some =>
        \A k \in 1..Len(data.v) :
            data.v[k].kind = "Class" =>
                LET clause == parsed.v.definitions[k].implements
                    list   == data.v[k].implements
                IN /\ Range(list) =
                          {with_double_colons(n) :
                               n \in Range(clause) \cup Reachable(Range(clause))}
                   /\ \A i, j \in 1..Len(list) : list[i] = list[j] => i = j
                   /\ \A i \in 1..(Len(list) - 1) :
                          StrLess(to_string(list[i]), to_string(list[i + 1]))
                   /\ \A other \in Reorderings(clause) :
                          \E r \in {to_generator_data(WithImplements(k, other),
                                                      hash_order)} :
                              r.ok /\ r.v[k].implements = list

\* a class whose one declared interface brings in a second one, resolved
\* under a hash order that is not the sorted order
C1_Witness ==
    /\ data.some
    /\ \E k \in 1..Len(data.v) :
           /\ data.v[k].kind = "Class"
           /\ Len(parsed.v.definitions[k].implements) = 1
           /\ Len(data.v[k].implements) = 2
           /\ hash_order # <<>>
           /\ hash_order[1] = NameJ

\* C2: for classes A extends B extends C, each a local declaration or a
\* metadata stub, C without an extends clause, the ancestor chain of A is
\* B, C, java.lang.Object in that order; the chain of a class without an
\* extends clause is java.lang.Object alone.
C2_AncestorChain ==
    data.some =>
        \A k \in 1..Len(data.v) :
            data.v[k].kind = "Class" =>
                LET a     == parsed.v.definitions[k].name
                    chain == data.v[k].transitive_extends
                IN /\ NoExtends(a) =>
                          chain = <<with_double_colons(JavaLangObject)>>
                   /\ \A b, c \in DeclaredClasses :
                          Extends(a, b) /\ Extends(b, c) /\ NoExtends(c) =>
                              chain = <<with_double_colons(b),
                                        with_double_colons(c),
                                        with_double_colons(JavaLangObject)>>

\* class A extends B, B extends C, C without an extends clause, resolved
C2_Witness ==
    /\ data.some
    /\ Extends(NameA, NameB) /\ Extends(NameB, NameC) /\ NoExtends(NameC)
    /\ \E k \in 1..Len(data.v) :
           /\ data.v[k].kind = "Class"
           /\ parsed.v.definitions[k].name = NameA
           /\ Len(data.v[k].transitive_extends) = 3

\* a class declaration whose extends clause names no declared class
UnresolvedSuperclass ==
    \E k \in 1..Len(Declarations) :
        /\ Declarations[k].kind = "Class"
        /\ Declarations[k].extends.some
        /\ Declarations[k].extends.v \notin DeclaredClasses

\* a top-level class or an interface (local or metadata) that names an
\* interface no declaration declares
UndeclaredInterface ==
    \/ \E k \in 1..Len(parsed.v.definitions) :
           /\ parsed.v.definitions[k].kind = "Class"
           /\ \E n \in Range(parsed.v.definitions[k].implements) :
                  n \notin DeclaredInterfaces
    \/ \E k \in 1..Len(Declarations) :
           /\ Declarations[k].kind = "Interface"
           /\ \E n \in Range(Declarations[k].extends) :
                  n \notin DeclaredInterfaces

\* an interface that reaches itself over extends edges
InterfaceCycle == \E i \in DeclaredInterfaces : i \in Reachable({i})

C5_Deterministic ==
    parsed.some =>
        \A ord \in Orders(InterfaceNames(parsed.v)) :
            \E r \in {to_generator_data(parsed.v, ord)} :
                /\ data.some => r.ok /\ r.v = data.v
                /\ output.some => r.ok /\ generate(r.v) = output.v
                /\ pc \in {"aborted", "diverged"} => ~r.ok

\* an emitted class with two resolved interfaces, under a hash order that
\* is not the order of the output
C5_Witness ==
    /\ pc = "done"
    /\ output.some
    /\ \E k \in 1..Len(data.v) :
           /\ data.v[k].kind = "Class"
           /\ Len(data.v[k].implements) = 2
           /\ with_double_colons(hash_order[1]) = data.v[k].implements[2]

\* the top-level tokens: the input without its metadata block
TopLevel(tokens) ==
    IF Len(tokens) > 1 /\ is_identifier(tokens[Len(tokens) - 1], str_metadata)
    THEN SubSeq(tokens, 1, Len(tokens) - 2)
    ELSE tokens

\* where the top-level chunks begin: at the first token and after every
\* brace body
ChunkStarts(tokens) ==
    {i \in 1..Len(tokens) :
         ~is_definition(tokens[i]) /\ (i = 1 \/ is_definition(tokens[i - 1]))}

\* where the keyword of the chunk that begins at i stands
KeywordAt(tokens, i) ==
    IF is_identifier(tokens[i], str_public) THEN i + 1 ELSE i

EndsName(token) ==
    \/ token.k = "Group"
    \/ is_identifier(token, str_extends)
    \/ is_identifier(token, str_implements)

\* the first position after the keyword at k that ends the declared name
NameStop(tokens, k) ==
    LET stops == {j \in (k + 1)..Len(tokens) : EndsName(tokens[j])}
    IN IF stops = {} THEN Len(tokens) + 1
       ELSE CHOOSE j \in stops : \A l \in stops : j <= l

\* the top-level declarations as written: the chunks that a brace body
\* ends, with their keyword and their declared simple name
DeclaredTopLevel(tokens) ==
    LET complete ==
            SelectSeq([i \in 1..Len(tokens) |-> i],
                      LAMBDA i :
                          /\ i \in ChunkStarts(tokens)
                          /\ \E g \in (i + 1)..Len(tokens) :
                                 is_definition(tokens[g]))
    IN [n \in 1..Len(complete) |->
           LET k == KeywordAt(tokens, complete[n])
           IN [item |-> IF is_identifier(tokens[k], str_class)
                        THEN "struct" ELSE "trait",
               name |-> tokens[NameStop(tokens, k) - 1]]]

\* the definitions of an output: its struct and trait items
GeneratedDefinitions(items) ==
    LET definitions == SelectSeq(items, LAMBDA x : x.item \in {"struct", "trait"})
    IN [n \in 1..Len(definitions) |->
           [item |-> definitions[n].item, name |-> definitions[n].name]]

\* C6: the output holds one generated definition for each top-level class
\* or interface declaration of the input, in the order they are written;
\* the declarations of the metadata block add none.
C6_OneDefinitionPerDeclaration ==
    output.some =>
        GeneratedDefinitions(output.v) = DeclaredTopLevel(TopLevel(input))

\* an interface written before a class, and a metadata block with a stub
C6_Witness ==
    /\ output.some
    /\ Len(parsed.v.metadata) > 0
    /\ Len(GeneratedDefinitions(output.v)) = 2
    /\ GeneratedDefinitions(output.v)[1].item = "trait"
    /\ GeneratedDefinitions(output.v)[2].item = "struct"

\* a top-level chunk whose name is missing or has two identifiers in a row
NameFault(tokens) ==
    \E i \in ChunkStarts(tokens) :
        LET k == KeywordAt(tokens, i)
        IN \/ k > Len(tokens)
           \/ NameStop(tokens, k) = k + 1
           \/ \E l \in (k + 1)..(NameStop(tokens, k) - 2) :
                  tokens[l].k = "Ident" /\ tokens[l + 1].k = "Ident"

\* C7: a failure aborts the whole invocation.  When a declaration of the
\* input fails parsing or resolution nothing is emitted, and an aborted
\* invocation has no output, whatever valid declarations come first.
C7_FailureEmitsNothing ==
    /\ pc \in {"aborted", "diverged"} => ~output.some /\ ~data.some
    /\ output.some =>
           /\ pc = "done"
           /\ parsed.some
           /\ ~NameFault(TopLevel(input))
           /\ ~UndeclaredInterface
           /\ ~InterfaceCycle

\* a class that resolves on its own, followed by a class that implements an
\* undeclared interface: aborted, nothing emitted
C7_Witness ==
    /\ pc = "aborted"
    /\ parsed.some
    /\ ~output.some
    /\ Len(parsed.v.definitions) > 1
    /\ parsed.v.definitions[1].kind = "Class"
    /\ parsed.v.definitions[1].implements = <<>>
    /\ DeclaredInterfaces = {}
    /\ parsed.v.definitions[2].kind = "Class"
    /\ parsed.v.definitions[2].implements # <<>>

-----------------------------------------------------------------------------
(* Properties of the parser.                                               *)

\* identifier (dot identifier)*
WellFormedName(tokens) ==
    /\ Len(tokens) % 2 = 1
    /\ \A i \in 1..Len(tokens) :
           IF i % 2 = 1 THEN tokens[i].k = "Ident"
           ELSE tokens[i].k = "Punct" /\ tokens[i].c = 46

Segments(tokens) ==
    [i \in 1..((Len(tokens) + 1) \div 2) |-> tokens[2 * i - 1]]

\* C8: from_tokens succeeds exactly on the runs identifier (dot
\* identifier)*, which start and end on an identifier, and returns their
\* identifiers in order; on every other run it fails.
C8_NameAcceptedIffWellFormed ==
    name_result.some =>
        /\ name_result.v.ok <=> WellFormedName(input)
        /\ WellFormedName(input) => name_result.v = Ok(Segments(input))

\* the positions of a keyword in a header
Positions(header, keyword) ==
    {i \in 1..Len(header) : is_identifier(header[i], keyword)}

First(positions) == CHOOSE i \in positions : \A j \in positions : i <= j

\* a header whose first implements keyword comes before its first extends
\* keyword
ImplementsFirst(header) ==
    /\ Positions(header, str_implements) # {}
    /\ Positions(header, str_extends) # {}
    /\ First(Positions(header, str_implements))
           < First(Positions(header, str_extends))

\* that header with the two clauses exchanged: the name, the extends clause,
\* the implements clause
ExtendsFirst(header) ==
    LET i == First(Positions(header, str_implements))
        e == First(Positions(header, str_extends))
    IN SubSeq(header, 1, i - 1) \o SubSeq(header, e, Len(header))
       \o SubSeq(header, i, e - 1)

HeaderNames == {Ident(str_A), Ident(str_I)}

\* C9, as the specification states it: a header with its implements clause
\* before its extends clause parses to what the header with the clauses
\* exchanged parses to.
C9_EitherOrder ==
    (header_result.some /\ ImplementsFirst(input)) =>
        \E swapped \in {parse_class_header(ExtendsFirst(input))} :
            swapped.ok => header_result.v = swapped

\* C9, as the code has it: the clauses are accepted in one order, extends
\* before implements.  A header `name extends name [implements name]`
\* parses to its name, superclass and interface list; a header whose first
\* implements keyword comes before its first extends keyword is rejected.
C9_ExtendsBeforeImplements ==
    header_result.some =>
        /\ ImplementsFirst(input) => ~header_result.v.ok
        /\ ( /\ Len(input) \in {3, 5}
             /\ input[1] \in HeaderNames
             /\ is_identifier(input[2], str_extends)
             /\ input[3] \in HeaderNames
             /\ Len(input) = 5 =>
                    /\ is_identifier(input[4], str_implements)
                    /\ input[5] \in HeaderNames )
           => header_result.v =
                  Ok([name |-> <<input[1]>>,
                      extends |-> Some(<<input[3]>>),
                      implements |-> IF Len(input) = 5 THEN <<<<input[5]>>>>
                                     ELSE <<>>])

\* A implements I extends A: rejected
C9_Witness ==
    /\ header_result.some
    /\ input = <<Ident(str_A), Ident(str_implements), Ident(str_I),
                 Ident(str_extends), Ident(str_A)>>
    /\ ~header_result.v.ok

\* C10: when the last top-level declaration header has no brace body after
\* it, generation aborts and nothing is emitted.
C10_BodilessHeaderAborts ==
    ( /\ TopLevel(input) # <<>>
      /\ ~is_definition(TopLevel(input)[Len(TopLevel(input))]) )
    => ~output.some /\ pc # "done"

\* the non-empty chunks of a class body
BodyChunks(body) == SplitNonEmpty(body, SemicolonPositions(body))

WithoutLeadingPublic(chunk) ==
    IF is_identifier(chunk[1], str_public) THEN Tail(chunk) ELSE chunk

\* a chunk that reads [public] qualified-name arguments
NamesClass(chunk, class_name) ==
    LET rest == WithoutLeadingPublic(chunk)
    IN /\ rest # <<>>
       /\ SubSeq(rest, 1, Len(rest) - 1) = with_dots(class_name)

\* the token a method chunk is named by: the last one before the argument
\* list, modifiers left out
MethodName(chunk) ==
    LET plain == SelectSeq(chunk, LAMBDA t : ~is_identifier(t, str_public)
                                             /\ ~is_identifier(t, str_static))
    IN plain[Len(plain) - 1]

\* C11: every non-empty chunk of a class body is either a constructor or a
\* method, each kind in the order written.  A chunk is a constructor
\* exactly when, a leading `public` removed, the tokens before its argument
\* list are the qualified name of the class; every other chunk is a method.
C11_ConstructorOrMethod ==
    (body_result.some /\ body_result.v.ok) =>
        LET chunks       == BodyChunks(input.body)
            constructors == SelectSeq(chunks, LAMBDA c :
                                          NamesClass(c, input.class_name))
            methods      == SelectSeq(chunks, LAMBDA c :
                                          ~NamesClass(c, input.class_name))
        IN /\ Len(body_result.v.v.constructors) = Len(constructors)
           /\ Len(body_result.v.v.methods) = Len(methods)
           /\ \A k \in 1..Len(constructors) :
                  body_result.v.v.constructors[k].public
                      = is_identifier(constructors[k][1], str_public)
           /\ \A k \in 1..Len(methods) :
                  body_result.v.v.methods[k].name = MethodName(methods[k])

\* a public constructor of the class a.C
C11_Witness ==
    /\ body_result.some
    /\ body_result.v.ok
    /\ input.class_name = <<Ident(str_a), Ident(str_C)>>
    /\ Len(body_result.v.v.constructors) = 1
    /\ body_result.v.v.constructors[1].public
    /\ body_result.v.v.methods = <<>>

\* the single class of the input: its name, its members as written, and
\* the operations generated for them
MemberClassName ==
    SelectSeq(SubSeq(input, 2, Len(input) - 1), LAMBDA t : t.k = "Ident")

MemberChunks == BodyChunks(input[Len(input)].ts)

IsConstructor(chunk) == NamesClass(chunk, MemberClassName)

IsStatic(chunk) == \E i \in 1..Len(chunk) : is_identifier(chunk[i], str_static)

IsPublic(chunk) == \E i \in 1..Len(chunk) : is_identifier(chunk[i], str_public)

GeneratedFunctions ==
    LET k == CHOOSE i \in 1..Len(output.v) : output.v[i].item = "impl"
    IN output.v[k].functions

\* the members in the order of emission: constructors, instance methods,
\* static methods, each group as declared
EmissionOrder ==
    SelectSeq(MemberChunks, IsConstructor)
        \o SelectSeq(MemberChunks,
                     LAMBDA c : ~IsConstructor(c) /\ ~IsStatic(c))
        \o SelectSeq(MemberChunks, LAMBDA c : ~IsConstructor(c) /\ IsStatic(c))

\* C12: every constructor and every method of a class yields exactly one
\* generated operation.  A constructor is named `new` and takes the
\* environment first; a method keeps its name, takes the environment first
\* and no receiver exactly when it is declared static, and takes the
\* receiver otherwise.  The operations are emitted as the constructors,
\* then the instance methods, then the static methods, each group in
\* declaration order.
C12_OneOperationPerMember ==
    pc = "done" =>
        /\ Len(GeneratedFunctions) = Len(MemberChunks)
        /\ \A k \in 1..Len(EmissionOrder) :
               LET chunk == EmissionOrder[k]
                   f     == GeneratedFunctions[k]
               IN /\ f.fn = IF IsConstructor(chunk) THEN Ident(str_new)
                            ELSE MethodName(chunk)
                  /\ f.receiver = IF IsConstructor(chunk) \/ IsStatic(chunk)
                                  THEN "env" ELSE "&self"
                  /\ f.call = IF IsConstructor(chunk) THEN "call_constructor"
                              ELSE IF IsStatic(chunk) THEN "call_static_method"
                              ELSE "call_method"

\* a static method, an instance method and a constructor, declared in the
\* reverse of the order of emission
C12_Witness ==
    /\ pc = "done"
    /\ Len(MemberChunks) = 3
    /\ IsStatic(MemberChunks[1])
    /\ ~IsStatic(MemberChunks[2]) /\ ~IsConstructor(MemberChunks[2])
    /\ IsConstructor(MemberChunks[3])
    /\ GeneratedFunctions[1].fn = Ident(str_new)
    /\ GeneratedFunctions[3].receiver = "env"

\* the primitive types of Java and the Rust types they stand for
PrimitiveTypes ==
    {<<str_int, str_i32>>, <<str_long, str_i64>>, <<str_char, str_char>>,
     <<str_byte, str_u8>>, <<str_boolean, str_bool>>, <<str_float, str_f32>>,
     <<str_double, str_f64>>}

IsPrimitive(type) ==
    Len(type) = 1 /\ \E p \in PrimitiveTypes : type[1] = Ident(p[1])

RustPrimitive(type) ==
    <<Ident((CHOOSE p \in PrimitiveTypes : type[1] = Ident(p[1]))[2])>>

Identifiers(tokens) == SelectSeq(tokens, LAMBDA t : t.k = "Ident")

\* the type a method chunk returns
ReturnTypeOf(chunk) ==
    LET plain == SelectSeq(chunk, LAMBDA t : ~is_identifier(t, str_public)
                                             /\ ~is_identifier(t, str_static))
    IN Identifiers(SubSeq(plain, 1, Len(plain) - 2))

\* the types of the arguments of a member chunk, in order
ArgumentTypesOf(chunk) ==
    LET list      == chunk[Len(chunk)].ts
        arguments == SplitNonEmpty(list, CommaPositions(list))
    IN [j \in 1..Len(arguments) |->
            Identifiers(SubSeq(arguments[j], 1, Len(arguments[j]) - 1))]

\* `::a::B <'a>`, the wrapper of the class a.B held by value
WrapperByValue(type) ==
    with_double_colons(type)
        \o <<Punct(60, "Alone"), Punct(39, "Joint"), Ident(str_a),
             Punct(62, "Alone")>>

\* `& ::a::B`, the wrapper of the class a.B behind a reference
WrapperByReference(type) == <<Punct(38, "Alone")>> \o with_double_colons(type)

\* C13: int, long, char, byte, boolean, float and double become i32, i64,
\* char, u8, bool, f32 and f64 as the type of an argument and as the type
\* of a result; every other type name becomes its wrapper type, taken by
\* reference as an argument and held by value as a result.
C13_TypeMapping ==
    pc = "done" =>
        \A k \in 1..Len(EmissionOrder) :
            LET chunk == EmissionOrder[k]
                f     == GeneratedFunctions[k]
                types == ArgumentTypesOf(chunk)
            IN /\ Len(f.argument_types) = Len(types)
               /\ \A j \in 1..Len(types) :
                      f.argument_types[j]
                          = IF IsPrimitive(types[j])
                            THEN RustPrimitive(types[j])
                            ELSE WrapperByReference(types[j])
               /\ ~IsConstructor(chunk) =>
                      f.return_type
                          = IF IsPrimitive(ReturnTypeOf(chunk))
                            THEN RustPrimitive(ReturnTypeOf(chunk))
                            ELSE WrapperByValue(ReturnTypeOf(chunk))

\* a.B f(I a, byte b): a class result, a class argument and a primitive one
C13_Witness ==
    /\ pc = "done"
    /\ \E k \in 1..Len(GeneratedFunctions) :
           /\ GeneratedFunctions[k].fn = Ident(str_f)
           /\ GeneratedFunctions[k].return_type
                  = WrapperByValue(<<Ident(str_a), Ident(str_B)>>)
           /\ GeneratedFunctions[k].argument_types
                  = <<WrapperByReference(<<Ident(str_I)>>), <<Ident(str_u8)>>>>

\* the texts of the segments, a slash before every segment but the first
RECURSIVE SlashPath(_)
SlashPath(segments) ==
    IF Len(segments) = 1 THEN segments[1].s
    ELSE SlashPath(SubSeq(segments, 1, Len(segments) - 1))
             \o <<47>> \o segments[Len(segments)].s

GeneratedItem(kind) ==
    output.v[CHOOSE i \in 1..Len(output.v) : output.v[i].item = kind]

\* C14: the signature of a declared class is the segments of its qualified
\* name, in order, joined by '/'; the full signature is that string between
\* 'L' and ';'.  The class lookup uses the signature and the signature
\* accessor the full signature.
C14_Signature ==
    pc = "done" =>
        /\ GeneratedItem("impl").get_class
               = Literal(SlashPath(MemberClassName))
        /\ GeneratedItem("impl JavaType").signature
               = Literal(<<76>> \o SlashPath(MemberClassName) \o <<59>>)

\* the class a.B.C, looked up as a/B/C
C14_Witness ==
    /\ pc = "done"
    /\ Len(MemberClassName) = 3
    /\ GeneratedItem("impl").get_class
           = Literal(<<97, 47, 66, 47, 67>>)
    /\ GeneratedItem("impl JavaType").signature
           = Literal(<<76, 97, 47, 66, 47, 67, 59>>)

\* where the generated definitions begin in the output
DefinitionStarts ==
    SelectSeq([i \in 1..Len(output.v) |-> i],
              LAMBDA i : output.v[i].item \in {"struct", "trait"})

\* the items generated for the n-th definition
ItemsOfDefinition(n) ==
    SubSeq(output.v, DefinitionStarts[n],
           IF n < Len(DefinitionStarts) THEN DefinitionStarts[n + 1] - 1
           ELSE Len(output.v))

CastTargets(items) ==
    LET casts == SelectSeq(items, LAMBDA x : x.item = "impl Cast")
    IN [i \in 1..Len(casts) |-> casts[i].target]

\* C15: the casts generated for a class are the cast of the class to itself
\* and after it one cast for each element of its ancestor chain, in the
\* order of the chain, which names no ancestor twice.
C15_Casts ==
    pc = "done" =>
        /\ Len(DefinitionStarts) = Len(data.v)
        /\ \A n \in 1..Len(data.v) :
               data.v[n].kind = "Class" =>
                   /\ CastTargets(ItemsOfDefinition(n))
                          = <<<<name(parsed.v.definitions[n].name)>>>>
                                \o data.v[n].transitive_extends
                   /\ \A i \in 1..Len(ItemsOfDefinition(n)) :
                          ItemsOfDefinition(n)[i].item = "impl Cast" =>
                              ItemsOfDefinition(n)[i].for
                                  = name(parsed.v.definitions[n].name)
                   /\ \A i, j \in 1..Len(data.v[n].transitive_extends) :
                          data.v[n].transitive_extends[i]
                              = data.v[n].transitive_extends[j] => i = j

\* class A extends B, B extends C: A cast to A, B, C and java.lang.Object
C15_Witness ==
    /\ pc = "done"
    /\ \E n \in 1..Len(data.v) :
           CastTargets(ItemsOfDefinition(n))
               = <<<<Ident(str_A)>>, with_double_colons(NameB),
                   with_double_colons(NameC),
                   with_double_colons(JavaLangObject)>>

\* C16: the trait generated for an interface requires the interfaces of
\* the extends clause of that declaration, in the order written, and no
\* other: not the interfaces those extend in turn, and none when the
\* declaration has no extends clause.
C16_DirectSupertraits ==
    pc = "done" =>
        \A n \in 1..Len(data.v) :
            parsed.v.definitions[n].kind = "Interface" =>
                LET clause == parsed.v.definitions[n].extends
                IN ItemsOfDefinition(n)
                       = <<[item |-> "trait",
                            name |-> name(parsed.v.definitions[n].name),
                            public |-> public_token(
                                           parsed.v.definitions[n].public),
                            supertraits |->
                                [i \in 1..Len(clause) |->
                                    with_double_colons(clause[i])]]>>

\* K extends J and J extends I: the trait of K requires J alone
C16_Witness ==
    /\ pc = "done"
    /\ \E n \in 1..Len(data.v) :
           /\ parsed.v.definitions[n].kind = "Interface"
           /\ parsed.v.definitions[n].name = NameK
           /\ NameI \in Reachable({NameK})
           /\ ItemsOfDefinition(n)[1].supertraits = <<with_double_colons(NameJ)>>

\* the interface map of the parsed input, and its closure as the resolver
\* computed it
DirectMap == interface_extends_map(parsed.v)

ClosedMap == populate_interface_extends(DirectMap, hash_order)

Resolving == parsed.some /\ pc \notin {"start", "parsed"}

\* C17: when the interfaces extend one another without a cycle, the closed
\* set of every interface holds the interfaces it extends directly, and the
\* closure of the closed map, in whatever order its keys are visited, is
\* the closed map.
C17_ClosureIdempotentMonotone ==
    (Resolving /\ ClosedMap.ok) =>
        /\ DOMAIN ClosedMap.v = DOMAIN DirectMap
        /\ \A i \in DOMAIN DirectMap : DirectMap[i] \subseteq ClosedMap.v[i]
        /\ \A again \in Orders(InterfaceNames(parsed.v)) :
               populate_interface_extends(ClosedMap.v, again) = ClosedMap

\* K extends J and J extends I: the closed set of K is larger than the
\* clause of K
C17_Witness ==
    /\ Resolving
    /\ ClosedMap.ok
    /\ NameK \in DOMAIN DirectMap
    /\ DirectMap[NameK] = {NameJ}
    /\ ClosedMap.v[NameK] = {NameJ, NameI}

\* the input ends in `metadata` and a token that is not a brace group
MetadataNotBraces ==
    /\ Len(input) > 1
    /\ is_identifier(input[Len(input) - 1], str_metadata)
    /\ ~is_definition(input[Len(input)])

\* the declarations of the input in the order the parser meets them: the
\* stubs of the metadata block, then the top-level chunks
ParseOrder ==
    LET top   == TopLevel(input)
        block == IF top # input /\ is_definition(input[Len(input)])
                 THEN input[Len(input)].ts ELSE <<>>
        stubs == SplitNonEmpty(block, MetadataSeparators(block))
        local == SplitNonEmpty(top, {i \in 1..Len(top) : is_definition(top[i])})
    IN [i \in 1..Len(stubs) |-> [tokens |-> stubs[i], top |-> FALSE]]
       \o [i \in 1..Len(local) |-> [tokens |-> local[i], top |-> TRUE]]

\* a declaration without the `public` a top-level declaration may begin with
Unqualified(declaration) ==
    IF declaration.top /\ is_identifier(declaration.tokens[1], str_public)
    THEN Tail(declaration.tokens) ELSE declaration.tokens

IsKeyword(token) ==
    is_identifier(token, str_class) \/ is_identifier(token, str_interface)

\* a declaration that begins with neither `class` nor `interface`
WrongKeyword(declaration) ==
    /\ Unqualified(declaration) # <<>>
    /\ ~IsKeyword(Unqualified(declaration)[1])

\* a keyword and a name of one identifier
PlainDeclaration(declaration) ==
    /\ Len(Unqualified(declaration)) = 2
    /\ IsKeyword(Unqualified(declaration)[1])
    /\ Unqualified(declaration)[2].k = "Ident"

ExpectedBraces == "Expected braces"

ExpectedClassOrInterface == "Expected \"class\" or \"interface\""

\* C18 as stated: a trailing `metadata` that no brace group follows aborts
\* with "Expected braces", and a declaration, top-level or of the metadata
\* block, that begins (after `public` at the top level) with neither
\* `class` nor `interface` aborts with "Expected "class" or "interface"".
C18_StructuralErrorsAbort ==
    pc # "start" =>
        /\ MetadataNotBraces => pc = "aborted" /\ error = ExpectedBraces
        /\ (~MetadataNotBraces
            /\ \E k \in 1..Len(ParseOrder) : WrongKeyword(ParseOrder[k])) =>
               pc = "aborted" /\ error = ExpectedClassOrInterface

\* C18, amended: a trailing `metadata` that no brace group follows aborts
\* with "Expected braces".  Otherwise a declaration that begins with
\* neither `class` nor `interface` aborts the generation, and the message
\* is "Expected "class" or "interface"" when every declaration the parser
\* meets before it, the metadata stubs first, is a keyword and a name.
C18_FirstStructuralErrorAborts ==
    pc # "start" =>
        /\ MetadataNotBraces =>
               pc = "aborted" /\ error = ExpectedBraces /\ ~output.some
        /\ ~MetadataNotBraces =>
               \A k \in 1..Len(ParseOrder) :
                   WrongKeyword(ParseOrder[k]) =>
                       /\ pc = "aborted"
                       /\ ~output.some
                       /\ (\A j \in 1..(k - 1) :
                               PlainDeclaration(ParseOrder[j])) =>
                              error = ExpectedClassOrInterface

\* a wrong keyword at the top level, after a metadata stub and a class that
\* parse
C18_Witness ==
    /\ pc = "aborted"
    /\ error = ExpectedClassOrInterface
    /\ Len(ParseOrder) = 3
    /\ ~ParseOrder[1].top /\ PlainDeclaration(ParseOrder[1])
    /\ ParseOrder[2].top /\ PlainDeclaration(ParseOrder[2])
    /\ WrongKeyword(ParseOrder[3])

\* the calls of token() that returned a token
Successes == {i \in 1..Len(returned) : returned[i] = "NoException"}

\* C19: of the calls of token() on one JniEnv at most one returns a token;
\* has_token is true until a call returns a token and false from then on,
\* and every call after that one panics.
C19_TokenAtMostOnce ==
    /\ Cardinality(Successes) <= 1
    /\ has_token = (Successes = {})
    /\ \A i \in Successes : \A j \in (i + 1)..Len(returned) :
           returned[j] = SecondToken

\* a call that panics on a pending exception, the call that returns the
\* token, and a later call
C19_Witness ==
    /\ returned = <<PendingException, "NoException", SecondToken>>
    /\ ~has_token
    /\ ~exception_pending

\* C20: a call of token() while an exception is pending panics, returns no
\* token and leaves has_token as it is: true when no token was handed out
\* before.
C20_NoTokenWhilePending ==
    [][(exception_pending /\ Len(returned') = Len(returned) + 1) =>
           /\ returned'[Len(returned')] \in {PendingException, SecondToken}
           /\ has_token' = has_token
           /\ has_token => returned'[Len(returned')] = PendingException
           /\ Successes = {} => has_token']_vars

\* token() has panicked on a pending exception, and has_token is true
C20_Witness ==
    /\ returned # <<>>
    /\ returned[Len(returned)] = PendingException
    /\ exception_pending
    /\ has_token

-----------------------------------------------------------------------------
\* Properties of the threads

LastCall == returned[Len(returned)]

\* the JNI functions the step called
CalledJni == SubSeq(jni_calls', Len(jni_calls) + 1, Len(jni_calls'))

\* the step is a call of op on the library
Calls(op) ==
    /\ Len(returned') = Len(returned) + 1
    /\ returned'[Len(returned')].op = op

\* what the call of the step came to
Outcome == returned'[Len(returned')].result

\* C21: a thread never has two JniEnv values: over every sequence of attach
\* and attach_daemon calls and JniEnv drops at most one JniEnv is alive, and
\* an attach on a thread that is attached already (GetEnv answers JNI_OK)
\* panics having called GetEnv only, the attach function not at all, and
\* hands out no JniEnv.
C21_OneJniEnvPerThread ==
    [][/\ Len(envs') <= 1
       /\ (Calls("attach") /\ attached) =>
              /\ Outcome = AlreadyAttached
              /\ CalledJni = <<"GetEnv">>
              /\ envs' = envs]_vars

\* a thread was attached, its JniEnv dropped and the thread detached, the
\* thread attached again, and a further attach panicked
C21_Witness ==
    /\ Len(returned) = 4
    /\ returned[1] = [op |-> "attach", result |-> "Ok(JniEnv)"]
    /\ returned[2] = [op |-> "drop", result |-> "()"]
    /\ returned[3] = [op |-> "attach", result |-> "Ok(JniEnv)"]
    /\ returned[4] = [op |-> "attach", result |-> AlreadyAttached]
    /\ envs = <<FALSE>>


\* C22: Exception::unwrap consumes the Exception token and fetches and clears
\* the pending exception before it hands out a new NoException token, so no
\* exception is pending when the new token exists; ExceptionClear is called
\* exactly when ExceptionOccurred returned an exception; unwrap panics, and
\* makes no token, when no exception is pending.
C22_UnwrapClearsBeforeToken ==
    [][Calls("unwrap") =>
          /\ live_tokens'.exception = live_tokens.exception - 1
          /\ CalledJni = IF exception_pending
                         THEN <<"ExceptionOccurred", "ExceptionClear">>
                         ELSE <<"ExceptionOccurred">>
          /\ ~exception_pending'
          /\ IF exception_pending
             THEN /\ Outcome = "(Throwable, NoException)"
                  /\ live_tokens'.no_exception
                         = live_tokens.no_exception + 1
             ELSE /\ Outcome = NoPendingException
                  /\ live_tokens'.no_exception
                         = live_tokens.no_exception]_vars

\* an exception thrown by Java was unwrapped, giving a new NoException token
\* after ExceptionOccurred and ExceptionClear
C22_Witness ==
    /\ Len(returned) >= 3
    /\ returned[Len(returned) - 1]
           = [op |-> "call", result |-> "Err(Exception)"]
    /\ LastCall = [op |-> "unwrap", result |-> "(Throwable, NoException)"]
    /\ SubSeq(jni_calls, Len(jni_calls) - 2, Len(jni_calls))
           = <<"CallObjectMethod", "ExceptionOccurred", "ExceptionClear">>
    /\ live_tokens = [no_exception |-> 1, exception |-> 0]
    /\ ~exception_pending


\* C23: a checked Java call never leaves an exception pending: whenever
\* with_checked_exception returns, either the wrapped call succeeded and its
\* value is returned as Ok, or the wrapped call returned an Exception token
\* and the pending exception was fetched and cleared and is returned as
\* Err(Throwable); the NoException token of the caller is not consumed in
\* either case.
C23_CheckedCallLeavesNoException ==
    [][(Calls("with_checked_exception") /\ ~IsPanic(Outcome)) =>
          /\ ~exception_pending'
          /\ live_tokens' = live_tokens
          /\ \/ /\ Outcome = "Ok(value)"
                /\ CalledJni = <<"CallObjectMethod">>
             \/ /\ Outcome = "Err(Throwable)"
                /\ CalledJni = <<"CallObjectMethod", "ExceptionOccurred",
                                 "ExceptionClear">>]_vars

\* a checked call returned a value and the next one the exception Java threw,
\* the token of the caller still alive
C23_Witness ==
    /\ Len(returned) >= 3
    /\ returned[Len(returned) - 1]
           = [op |-> "with_checked_exception", result |-> "Ok(value)"]
    /\ LastCall = [op |-> "with_checked_exception",
                   result |-> "Err(Throwable)"]
    /\ live_tokens = [no_exception |-> 1, exception |-> 0]
    /\ ~exception_pending


Count(s, x) == Cardinality({i \in DOMAIN s : s[i] = x})

\* C24: the drop of a JniEnv: for the JniEnv of a native method call no JNI
\* function is called; otherwise, if an exception is pending,
\* ExceptionDescribe is called and the drop panics without detaching the
\* thread; otherwise DetachCurrentThread is called exactly once, and the
\* drop panics when the detach status is not JNI_OK.
C24_DropProtocol ==
    [][Calls("drop") =>
          IF envs[1]
          THEN /\ CalledJni = <<>>
               /\ Outcome = "()"
               /\ attached' = attached
          ELSE IF exception_pending
          THEN /\ Count(CalledJni, "ExceptionDescribe") = 1
               /\ Count(CalledJni, "DetachCurrentThread") = 0
               /\ Outcome = DroppingWithException
               /\ attached' = attached
          ELSE /\ Count(CalledJni, "DetachCurrentThread") = 1
               /\ Count(CalledJni, "ExceptionDescribe") = 0
               /\ \/ Outcome = "()" /\ ~attached'
                  \/ Outcome = CouldNotDetach /\ attached']_vars

\* the JniEnv of an attached thread was dropped while the exception a Java
\* call threw was pending: the drop described it and panicked, the thread
\* still attached
C24_Witness ==
    /\ Len(returned) = 4
    /\ returned[1] = [op |-> "attach", result |-> "Ok(JniEnv)"]
    /\ returned[3] = [op |-> "call", result |-> "Err(Exception)"]
    /\ returned[4] = [op |-> "drop", result |-> DroppingWithException]
    /\ SubSeq(jni_calls, Len(jni_calls) - 1, Len(jni_calls))
           = <<"ExceptionCheck", "ExceptionDescribe">>
    /\ attached
    /\ envs = <<>>


-----------------------------------------------------------------------------
\* Properties of the resolver: termination and the ancestors of a class

\* the interfaces reached from the interfaces of S in at most n steps along
\* the extends clauses of the map
RECURSIVE ReachedFrom(_, _, _)
ReachedFrom(map, S, n) ==
    IF n = 0 THEN S
    ELSE ReachedFrom(map,
                     S \cup UNION {map[k] : k \in S \cap DOMAIN map}, n - 1)

\* the interfaces the interface k extends, directly or not
ExtendedBy(map, k) == ReachedFrom(map, map[k], Cardinality(DOMAIN map))

\* no interface extends itself, directly or not
Acyclic(map) == \A k \in DOMAIN map : k \notin ExtendedBy(map, k)

\* every interface that is extended is declared
AllDeclared(map) == \A k \in DOMAIN map : map[k] \subseteq DOMAIN map

\* populate_interface_extends comes to an end, with the closed map or with
\* the panic of an unwrap
Terminates == ClosedMap.ok \/ ClosedMap.err # "stack overflow"

\* C25, as stated: populate_interface_extends terminates exactly when the
\* graph of the extends clauses of the interfaces, local and metadata, has
\* no cycle; on a cycle, an interface that extends itself included, the
\* recursion never returns.
C25_TerminatesIffAcyclic ==
    Resolving => (Acyclic(DirectMap) <=> Terminates)

\* C25, amended: populate_interface_extends returns the closed map exactly
\* when the graph has no cycle and every extended interface is declared; on
\* a graph without a cycle it terminates; when every extended interface is
\* declared it terminates exactly when the graph has no cycle, and on a
\* cycle the recursion never returns. On a graph with a cycle and an
\* undeclared interface it recurses without end or panics on the undeclared
\* interface, whichever the visiting order meets first.
C25_ReturnsIffAcyclicAndDeclared ==
    Resolving =>
        /\ ClosedMap.ok <=> (Acyclic(DirectMap) /\ AllDeclared(DirectMap))
        /\ Acyclic(DirectMap) => Terminates
        /\ AllDeclared(DirectMap) => (Acyclic(DirectMap) <=> Terminates)
        /\ (~Terminates) => pc = "aborted" /\ error = "stack overflow"

\* I extends J and J extends I, both declared: the recursion has no end
C25_Witness ==
    /\ Resolving
    /\ DirectMap = (NameI :> {NameJ}) @@ (NameJ :> {NameI})
    /\ ~Terminates
    /\ error = "stack overflow"


\* the class -> superclass map of the parsed input
ExtendsMap == class_extends_map(parsed.v)

\* the classes among the resolved definitions
ResolvedClasses ==
    {i \in 1..Len(data.v) : data.v[i].kind = "Class"}

\* C26: for every class of every input the walk along the superclasses
\* terminates, and it terminates at the implicit root java.lang.Object,
\* which has no entry in the class -> superclass map, whatever classes the
\* input and its metadata block declare.
C26_AncestorWalkEndsAtObject ==
    Resolving =>
        /\ pc # "diverged"
        /\ JavaLangObject \notin DOMAIN ExtendsMap
        /\ data.some =>
               \A i \in ResolvedClasses :
                   LET chain == data.v[i].transitive_extends
                   IN /\ chain # <<>>
                      /\ chain[Len(chain)] = with_double_colons(JavaLangObject)

\* the metadata block declares java.lang.Object and the walk from a local
\* class never ends
C26_ObjectStubDiverges ==
    /\ Resolving
    /\ pc = "diverged"
    /\ JavaLangObject \in DOMAIN ExtendsMap
    /\ ExtendsMap[JavaLangObject] = JavaLangObject


\* C27: for every emitted class the ancestor chain is not empty and begins
\* with the superclass the struct of the class wraps and derefs to, the
\* declared superclass or java.lang.Object, for every input, one that
\* declares a class name twice, or locally and in the metadata block,
\* included.
C27_ChainBeginsWithSuperclass ==
    data.some =>
        \A i \in ResolvedClasses :
            /\ data.v[i].transitive_extends # <<>>
            /\ data.v[i].transitive_extends[1] = data.v[i].super_class

\* class B extends C is declared locally and the metadata block declares
\* class B without a superclass: the struct of B wraps C, the chain of B is
\* java.lang.Object alone
C27_StubReplacesSuperclass ==
    /\ data.some
    /\ \E i \in ResolvedClasses :
           /\ data.v[i].super_class = with_double_colons(NameC)
           /\ data.v[i].transitive_extends
                  = <<with_double_colons(JavaLangObject)>>


-----------------------------------------------------------------------------
\* Properties of the functions of a generated class

\* the names of the functions in the impl block of the generated class:
\* those of the template, then the generated ones
FunctionNames ==
    builtin_functions
        \o [i \in 1..Len(GeneratedFunctions) |-> GeneratedFunctions[i].fn]

\* C28: within one generated class no two generated operations have the
\* same name: the constructors, the instance methods and the static methods
\* together with get_class, clone and to_string are pairwise distinct, for
\* every class body the parser accepts.
C28_DistinctFunctionNames ==
    pc = "done" =>
        \A i, j \in 1..Len(FunctionNames) :
            FunctionNames[i] = FunctionNames[j] => i = j

\* a class with two constructors of different arguments: both are generated
\* under the name new
C28_TwoConstructors ==
    /\ pc = "done"
    /\ Len(GeneratedFunctions) = 2
    /\ GeneratedFunctions[1].fn = Ident(str_new)
    /\ GeneratedFunctions[2].fn = Ident(str_new)
    /\ GeneratedFunctions[1].argument_types
           # GeneratedFunctions[2].argument_types


-----------------------------------------------------------------------------
\* Properties of the interfaces of a class

\* the parsed input with the implements clauses of the metadata class stubs
\* emptied
WithoutStubImplements ==
    [parsed.v EXCEPT !.metadata =
        [i \in 1..Len(parsed.v.metadata) |->
            IF parsed.v.metadata[i].kind = "Class"
            THEN [parsed.v.metadata[i] EXCEPT !.implements = <<>>]
            ELSE parsed.v.metadata[i]]]

\* the interfaces of a clause and all they extend, in the closed map
ClauseClosure(clause) ==
    Range(clause) \cup UNION {ExtendedBy(DirectMap, k) : k \in Range(clause)}

\* C29: the resolved implements list of a class depends on the implements
\* clause of the class and on the extends clauses of the interfaces only:
\* it holds the interfaces of the clause and those they extend, the
\* implements clauses of the superclasses add nothing to it, and the
\* implements clause of a metadata class stub changes nothing of what
\* resolution and emission come to.
C29_ImplementsOfOwnClauseOnly ==
    /\ Resolving =>
           \E r \in {to_generator_data(WithoutStubImplements, hash_order)} :
               /\ r.ok = data.some
               /\ r.ok => r.v = data.v
               /\ ~r.ok => r.err = error
    /\ data.some =>
           \A i \in ResolvedClasses :
               Range(data.v[i].implements)
                   = {with_double_colons(n) :
                          n \in ClauseClosure(parsed.v.definitions[i].implements)}

\* A extends C implements I, and the metadata block declares the superclass
\* as C implements K: code is emitted, with I alone as the interface of A
C29_Witness ==
    /\ pc = "done"
    /\ \E i \in 1..Len(parsed.v.metadata) :
           /\ parsed.v.metadata[i].kind = "Class"
           /\ parsed.v.metadata[i].name = NameC
           /\ parsed.v.metadata[i].implements = <<NameK>>
    /\ \E i \in ResolvedClasses :
           /\ parsed.v.definitions[i].name = NameA
           /\ parsed.v.definitions[i].extends = Some(NameC)
           /\ parsed.v.definitions[i].implements = <<NameI>>
           /\ data.v[i].implements = <<with_double_colons(NameI)>>


====
